---- MODULE Spec2Model ----
(***************************************************************************)
(* Allocation of census feature counts to geocoded addresses, after        *)
(* nhs/data/allocation.py and scripts/home_allocation.py.                  *)
(*                                                                         *)
(* A frame is a sequence of rows; a row is a record.  A null in a code,    *)
(* coordinate or count column is the string NULL; a null feature flag is   *)
(* a column missing from the domain of the row's flags.                    *)
(*                                                                         *)
(* Attribution of address points to area polygons, after                   *)
(* nhs/data/geography.py and nhs/data/join_on_sa1.py, is the second part.  *)
(*                                                                         *)
(* The third part is the writing of the result in chunks                   *)
(* (scripts/home_allocation.py) and the loading, filtering and naming of   *)
(* the input frames (nhs/data/handling.py, filter.py, mapping.py,          *)
(* nhs/utils/string.py, meta_data.py).                                     *)
(***************************************************************************)
EXTENDS Integers, Sequences, FiniteSets, TLC

\* ---------------------------------------------------------------- bounds
MaxPool == 3     \* most address rows in the coordinate frame
MaxQuota == 4    \* largest sum of the absolute feature counts of the census
MaxTwice == 2    \* the allocator is called a second time on tables of at most this many rows
MaxCores == 3    \* largest num_cores handed to parallel_process
MaxJoin == 2     \* most rows of a frame handed to join_census_with_coords on its own
MaxRows == 3     \* most rows of the table handed to write_csv_in_chunks
MaxChunk == 3    \* largest chunk_size handed to write_csv_in_chunks
MaxLen == 3      \* most rows of a frame handed to filter_sa1_regions or map_state_to_sa1_codes
MaxFiles == 3    \* most files in the directory handed to read_spreadsheets

\* ---------------------------------------------------------------- inputs
NULL == "null"

\* values of the region code column (test_allocation.py uses "A" and "B")
Regions == {"A", "B"}

\* feature_cols, in the order they are passed to randomly_assign_census_features
FeatureCols == <<"feature_1", "feature_2">>

Features == {FeatureCols[i] : i \in 1..Len(FeatureCols)}

VARIABLES
    coords,   \* the coordinate frame: rows [code, long, lat]
    quota,    \* the census frame as a function: quota[r][f] is the count of f in region r
    order,    \* the census frame's row order: a sequence of region codes
    run,      \* "first" or "second": which call of the allocator is in progress
    pc,       \* position in the call: "join", "sample", "done"
    joined,   \* result of join_census_with_coords
    sampled,  \* the list sampled_features built so far, one frame per feature
    out,      \* the table returned by randomly_assign_census_features
    status,   \* "ok", or the exception that ended the call
    prev,     \* the first call's [order, status, out], once the second has begun
    full,     \* the frame _join_sampled_census_features makes of the two samples
    out_cols  \* the column names of the table out, in their order

allocVars == <<coords, quota, order, run, pc, joined, sampled, out, status, prev, full,
               out_cols>>

VARIABLES
    houses_df,          \* the address rows read from the csv: rows [x, y]
    crs,                \* the crs of the configuration
    shapefile,          \* the polygons as the shapefile stores them: [crs, rows]
    pnts_gdf,           \* the address points as a geo frame: [crs, rows]
    map_data,           \* the polygons handed to the join: [crs, rows]
    num_cores,          \* the number of chunks and of pool workers
    chunks,             \* np.array_split(pnts_gdf, num_cores)
    all_results,        \* what pool.map has of each chunk: [status, rows]
    final_result,       \* the frame parallel_process returns
    houses_with_areas,  \* the rows main writes to the output csv
    gpc,                \* position in main or in the call
    gstatus,            \* "ok", or the exception that ended the run
    ties,               \* what the installed pandas does with a duplicated label
    caller,             \* "main", "direct" (parallel_process called on its own), "script"
    strategy,           \* failed_join_strategy of join_coords_with_area
    joined_coords,      \* the frame join_coords_with_area returns
    census_lf,          \* the census frame of a call of join_census_with_coords: [dtype, rows]
    coords_lf,          \* its coordinate frame: [dtype, rows]
    census_gnaf,        \* the frame the call returns
    jstatus             \* "call", "ok", or the exception of the call

geoVars == <<houses_df, crs, shapefile, pnts_gdf, map_data, num_cores, chunks,
             all_results, final_result, houses_with_areas, gpc, gstatus, ties,
             caller, strategy, joined_coords>>

joinVars == <<census_lf, coords_lf, census_gnaf, jstatus>>

\* write_csv_in_chunks
VARIABLES
    lf,             \* the collected rows of the table, each a sequence of cells
    chunk_size,     \* rows per slice
    target,         \* the lines of the file at output_path (<<>>: empty or absent)
    first_chunk,    \* the flag of the loop
    offset,         \* row offset of the next slice of iter_slices
    wpc             \* "idle", "loop" or "done"

fileVars == <<lf, chunk_size, target, first_chunk, offset, wpc>>

\* one call of a function of nhs/data or nhs/utils on its own
VARIABLES
    call,           \* the function called and its arguments
    ret,            \* the value returned
    cstatus         \* "called", "returned" or the exception raised

callVars == <<call, ret, cstatus>>

\* read_spreadsheets, called on its own or by load_gnaf_files_by_states
VARIABLES
    entry,              \* "read_spreadsheets" or "load_gnaf_files_by_states"
    files,              \* list_files(dirname): records [name, readable], in listing order
    file_dir_pattern,   \* the pattern after the directory; <<>> for a directory alone
    extension,          \* the extension asked for
    gnaf_states,        \* the states handed to load_gnaf_files_by_states
    enabled,            \* logging of the nhs package is enabled
    log,                \* the files whose failure was logged by logger.catch
    keys,               \* the keys of read_spreadsheets
    ridx,               \* position of zip(keys, map(reader, files))
    all_files,          \* the dictionary built so far, as [key, val] in insertion order
    default_geocode_lf, \* the parts of the first frame returned
    address_detail_lf,  \* the parts of the second frame returned
    lpc                 \* "idle", "start", "list", "read", "combine" or "done"

loadVars == <<entry, files, file_dir_pattern, extension, gnaf_states, enabled, log, keys,
              ridx, all_files, default_geocode_lf, address_detail_lf, lpc>>

restVars == <<fileVars, callVars, loadVars>>

vars == <<allocVars, geoVars, joinVars, restVars>>

\* no table is being written
FileIdle ==
    /\ lf = <<>>
    /\ chunk_size = 1
    /\ target = <<>>
    /\ first_chunk = TRUE
    /\ offset = 0
    /\ wpc = "idle"

\* no function is called on its own
CallIdle ==
    /\ call = [fn |-> "none"]
    /\ ret = <<>>
    /\ cstatus = "idle"

\* no directory is being read
LoadIdle ==
    /\ entry = "none"
    /\ files = <<>>
    /\ file_dir_pattern = <<>>
    /\ extension = ".csv"
    /\ gnaf_states = <<>>
    /\ enabled = TRUE
    /\ log = <<>>
    /\ keys = <<>>
    /\ ridx = 1
    /\ all_files = <<>>
    /\ default_geocode_lf = <<>>
    /\ address_detail_lf = <<>>
    /\ lpc = "idle"

RestIdle == FileIdle /\ CallIdle /\ LoadIdle

\* no attribution is in progress
GeoIdle ==
    /\ houses_df = <<>>
    /\ crs = "EPSG:7844"
    /\ shapefile = [crs |-> "EPSG:7844", rows |-> <<>>]
    /\ pnts_gdf = [crs |-> "EPSG:7844", rows |-> <<>>]
    /\ map_data = [crs |-> "EPSG:7844", rows |-> <<>>]
    /\ num_cores = 1
    /\ chunks = <<>>
    /\ all_results = <<>>
    /\ final_result = <<>>
    /\ houses_with_areas = <<>>
    /\ gpc = "idle"
    /\ gstatus = "ok"
    /\ ties = "raise"
    /\ caller = "none"
    /\ strategy = NULL
    /\ joined_coords = <<>>

\* no call of join_census_with_coords on its own is in progress
JoinIdle ==
    /\ census_lf = [dtype |-> "str", rows |-> <<>>]
    /\ coords_lf = [dtype |-> "str", rows |-> <<>>]
    /\ census_gnaf = <<>>
    /\ jstatus = "idle"

\* ---------------------------------------------------------------- helpers
Abs(n) == IF n < 0 THEN -n ELSE n

RECURSIVE SumAbs(_, _)
SumAbs(q, pairs) ==
    IF pairs = {} THEN 0
    ELSE LET p == CHOOSE x \in pairs : TRUE
         IN  Abs(q[p[1]][p[2]]) + SumAbs(q, pairs \ {p})

RECURSIVE Flatten(_)
Flatten(ss) == IF ss = <<>> THEN <<>> ELSE Head(ss) \o Flatten(Tail(ss))

Repeat(x, n) == [i \in 1..n |-> x]

SelectPositions(s, keep) ==
    LET F[i \in 0..Len(s)] ==
            IF i = 0 THEN <<>>
            ELSE IF i \in keep THEN Append(F[i - 1], s[i]) ELSE F[i - 1]
    IN  F[Len(s)]

Min(a, b) == IF a < b THEN a ELSE b

\* the sequences that hold every element of S once
RECURSIVE Orders(_)
Orders(S) ==
    IF S = {} THEN {<<>>}
    ELSE UNION {{<<x>> \o t : t \in Orders(S \ {x})} : x \in S}

\* the coordinate frame with n[r] address rows of region r, grouped by region
RECURSIVE CoordFrame(_, _)
CoordFrame(n, regs) ==
    IF regs = <<>> THEN <<>>
    ELSE LET r == Head(regs)
         IN  [i \in 1..n[r] |-> [code |-> r, long |-> i, lat |-> i + Len(regs)]]
             \o CoordFrame(n, Tail(regs))

\* ---------------------------------------------------------------- frames
\* the census frame: one row per region, in the given row order
Census(ord, q) == [i \in 1..Len(ord) |-> [code |-> ord[i], feat |-> q[ord[i]]]]

\* the join without its condition on the coordinate side: a census row is
\* paired with the coordinate rows of every region
JoinAnyCoords(census, crds) ==
    Flatten([i \in 1..Len(census) |->
        [k \in 1..Len(crds) |->
            [code |-> census[i].code, long |-> crds[k].long,
             lat |-> crds[k].lat, feat |-> census[i].feat]]])

\* the join without its condition on the census side: a coordinate row gets
\* the counts of every census row
JoinAnyCensus(census, crds) ==
    Flatten([i \in 1..Len(census) |->
        [k \in 1..Len(crds) |->
            [code |-> crds[k].code, long |-> crds[k].long,
             lat |-> crds[k].lat, feat |-> census[i].feat]]])

\* how = "left" in place of "inner": a census row without a coordinate row
\* stays, with null coordinates
JoinLeft(census, crds) ==
    Flatten([i \in 1..Len(census) |->
        LET match == SelectSeq(crds, LAMBDA a : a.code = census[i].code)
        IN  IF match = <<>>
            THEN <<[code |-> census[i].code, long |-> NULL, lat |-> NULL,
                    feat |-> census[i].feat]>>
            ELSE [k \in 1..Len(match) |->
                    [code |-> census[i].code, long |-> match[k].long,
                     lat |-> match[k].lat, feat |-> census[i].feat]]])

\* census.join(coords, left_on = code, right_on = code, how = "inner"):
\* a row for every (census row, coordinate row) pair with equal codes, in the
\* order of the census rows and, under each, of the coordinate rows
\* (the census rows arrive with their codes cast to the dtype of the
\* coordinate codes: see CensusTypeCasted)
JoinCensusWithCoords(census, crds) ==
    Flatten([i \in 1..Len(census) |->
        LET match == SelectSeq(crds, LAMBDA a : a.code = census[i].code)
        IN  [k \in 1..Len(match) |->
                [code |-> census[i].code, long |-> match[k].long,
                 lat |-> match[k].lat, feat |-> census[i].feat]]])

\* what explode/flatten leaves of an empty or a null list: one row of nulls
NullRow == [code |-> NULL, long |-> NULL, lat |-> NULL, feat |-> NULL]

\* the select without repeat_by: every row once
RepeatByOnce(row, f) ==
    LET n == row.feat[f]
    IN  IF n > 0
        THEN <<[code |-> row.code, long |-> row.long, lat |-> row.lat, feat |-> n]>>
        ELSE <<NullRow>>

\* pl.col(code, long, lat, feature).repeat_by(pl.col(feature)).flatten() on one
\* row: the row count times; a count of 0 gives an empty list and a negative
\* count (cast to the unsigned index type without a check) a null list, and
\* flatten turns either into one null row
RepeatBy(row, f) ==
    LET n == row.feat[f]
    IN  IF n > 0
        THEN Repeat([code |-> row.code, long |-> row.long, lat |-> row.lat, feat |-> n], n)
        ELSE <<NullRow>>

\* the frame that the select of sample_census_feature builds
Universe(census, f) == Flatten([i \in 1..Len(census) |-> RepeatBy(census[i], f)])

\* the positions of the rows of u in the window group g of .over(code_col)
GroupPositions(u, g) == {p \in 1..Len(u) : u[p].code = g}

\* The sets of k positions of S the filter can keep.  Rows of u that are copies
\* of one joined row are equal, so the frame the filter returns is decided by
\* how many copies of each row it keeps: of the sets that keep equally many
\* copies of every row, the one that keeps the first copies stands for all.
RECURSIVE KeptSets(_, _, _)
KeptSets(u, S, k) ==
    IF k = 0 THEN {{}}
    ELSE IF Cardinality(S) < k THEN {}
    ELSE LET x == CHOOSE y \in S : \A z \in S : z <= y
             rest == S \ {x}
             same == {p \in rest : u[p] = u[x]}
         IN  KeptSets(u, rest, k) \cup
             (IF Cardinality(same) > k - 1 THEN {}
              ELSE {T \cup {x} : T \in {T2 \in KeptSets(u, rest, k - 1) : same \subseteq T2}})

\* the shuffle without .over(code_col): the values 0..n-1 of the shuffled range
\* of the whole frame fall on rows of any group, so a group keeps n rows less
\* the ones that fell outside it
ShuffleWholeFrame(u, g) ==
    LET pos == GroupPositions(u, g)
        n == u[CHOOSE p \in pos : TRUE].feat
        outside == Len(u) - Cardinality(pos)
    IN  IF g = NULL THEN {{}}
        ELSE UNION {KeptSets(u, pos, k) :
                      k \in (IF n > outside THEN n - outside ELSE 0)..Min(n, Cardinality(pos))}

\* The positions p of group g with  shuffled_range[p] < u[p].feat, for every
\* outcome of the unseeded shuffle of int_range(len(group)).  Every row of a
\* group holds the same count n, so the rows kept are the ones the shuffle
\* gives the values 0..n-1: any Min(n, len) of them.  In the null group the
\* comparison with a null count is null and the filter keeps nothing.
ShuffleOver(u, g) ==
    LET pos == GroupPositions(u, g)
        n == u[CHOOSE p \in pos : TRUE].feat
    IN  IF g = NULL THEN {{}}
        ELSE KeptSets(u, pos, Min(n, Cardinality(pos)))

\* the sets of positions the filter can keep over all window groups
RECURSIVE ShuffleFilter(_, _)
ShuffleFilter(u, groups) ==
    IF groups = {} THEN {{}}
    ELSE LET g == CHOOSE x \in groups : TRUE
         IN  {S \cup T : S \in ShuffleOver(u, g), T \in ShuffleFilter(u, groups \ {g})}

Groups(u) == {u[p].code : p \in 1..Len(u)}

\* sample_census_feature with the shuffle's outcome given as the kept positions:
\* a frame with the columns code, long, lat and the one feature column f
SampleCensusFeature(census, f, kept) ==
    IF Len(census) = 0
    THEN [cols |-> {f}, rows |-> <<>>]
    ELSE LET u == Universe(census, f)
             sel == SelectPositions(u, kept)
         IN  [cols |-> {f},
              rows |-> [k \in 1..Len(sel) |->
                          [code |-> sel[k].code, long |-> sel[k].long,
                           lat |-> sel[k].lat, flags |-> [c \in {f} |-> TRUE]]]]

\* the feature columns taken from the first frame alone
FeatColsOfFirst(feats_1, feats_2) == feats_1.cols \ {}

\* _get_feat_non_feat_cols: the feature columns are the ones not shared
FeatNonFeatCols(feats_1, feats_2) ==
    (feats_1.cols \cup feats_2.cols) \ (feats_1.cols \cap feats_2.cols)

\* A row's flags are a function on the feature columns in which the row is not
\* null.  pl.concat(how = "diagonal_relaxed") leaves a row null in the columns
\* its frame lacks; fill_null(False) then fills the columns in fill.
FillRow(row, cols, fill) ==
    [row EXCEPT !.flags =
        [c \in (DOMAIN row.flags) \cup (fill \cap cols) |->
            IF c \in DOMAIN row.flags THEN row.flags[c] ELSE FALSE]]

StackSampledCensusFeatures(feats_1, feats_2) ==
    LET cols == feats_1.cols \cup feats_2.cols
        fill == FeatNonFeatCols(feats_1, feats_2)
        rows == feats_1.rows \o feats_2.rows
    IN  [cols |-> cols, rows |-> [k \in 1..Len(rows) |-> FillRow(rows[k], cols, fill)]]

\* the rows of a frame with the code and coordinates of row
SameKey(rows, row) ==
    SelectSeq(rows, LAMBDA x : x.code = row.code /\ x.long = row.long /\ x.lat = row.lat)

\* the flags of a row of feats_1 and of the row of feats_2 it is joined with
MergeFlags(r1, r2) ==
    [r1 EXCEPT !.flags =
        [c \in (DOMAIN r1.flags) \cup (DOMAIN r2.flags) |->
            IF c \in DOMAIN r1.flags THEN r1.flags[c] ELSE r2.flags[c]]]

\* how = "inner" in place of "full": the rows without a partner are dropped
JoinSampledInner(feats_1, feats_2) ==
    LET cols == feats_1.cols \cup feats_2.cols
        rows == Flatten([i \in 1..Len(feats_1.rows) |->
                    LET m == SameKey(feats_2.rows, feats_1.rows[i])
                    IN  [k \in 1..Len(m) |-> MergeFlags(feats_1.rows[i], m[k])]])
    IN  [cols |-> cols, rows |-> rows]

\* _join_sampled_census_features: feats_1.join(feats_2, on = non_feat_cols,
\* how = "full", coalesce = True), then fill_null(False) on the feature
\* columns.  A row for every pair of rows with equal code and coordinates, a
\* row of feats_1 without a partner, then the rows of feats_2 without one.
JoinSampledCensusFeatures(feats_1, feats_2) ==
    LET cols == feats_1.cols \cup feats_2.cols
        fill == FeatNonFeatCols(feats_1, feats_2)
        left == Flatten([i \in 1..Len(feats_1.rows) |->
                    LET m == SameKey(feats_2.rows, feats_1.rows[i])
                    IN  IF m = <<>> THEN <<feats_1.rows[i]>>
                        ELSE [k \in 1..Len(m) |-> MergeFlags(feats_1.rows[i], m[k])]])
        right == SelectSeq(feats_2.rows, LAMBDA x : SameKey(feats_1.rows, x) = <<>>)
        rows == left \o right
    IN  [cols |-> cols, rows |-> [k \in 1..Len(rows) |-> FillRow(rows[k], cols, fill)]]

\* functools.reduce(_stack_sampled_census_features, frames), frames non-empty
RECURSIVE Reduce(_)
Reduce(frames) ==
    IF Len(frames) = 1 THEN frames[1]
    ELSE StackSampledCensusFeatures(Reduce(SubSeq(frames, 1, Len(frames) - 1)),
                                    frames[Len(frames)])

\* the row index that starts anew in the rows of every region
AssignIndexPerRegion(frame) ==
    [k \in 1..Len(frame.rows) |->
        [person_id |-> Len(SelectSeq(SubSeq(frame.rows, 1, k - 1),
                                     LAMBDA x : x.code = frame.rows[k].code)),
         code |-> frame.rows[k].code, long |-> frame.rows[k].long,
         lat |-> frame.rows[k].lat,
         flags |-> [c \in Features \cap DOMAIN frame.rows[k].flags |->
                      frame.rows[k].flags[c]]]]

\* with_columns(int_range(len).alias(index_col)).select(index, code, long, lat, *feature_cols)
AssignIndex(frame) ==
    [k \in 1..Len(frame.rows) |->
        [person_id |-> k - 1, code |-> frame.rows[k].code, long |-> frame.rows[k].long,
         lat |-> frame.rows[k].lat,
         flags |-> [c \in Features \cap DOMAIN frame.rows[k].flags |->
                      frame.rows[k].flags[c]]]]

\* the names in a sequence of column names
Names(cols) == {cols[i] : i \in 1..Len(cols)}

\* the columns of a sample: select(pl.col(code_col, long_col, lat_col, feature_col))
SampleColumns(f) == <<"code", "long", "lat", f>>

\* pl.concat(how = "diagonal_relaxed"): the columns of the first frame, then
\* the columns that only the second has
ConcatColumns(cols_1, cols_2) == cols_1 \o SelectSeq(cols_2, LAMBDA n : n \notin Names(cols_1))

RECURSIVE ReduceColumns(_)
ReduceColumns(list) ==
    IF Len(list) = 1 THEN list[1]
    ELSE ConcatColumns(ReduceColumns(SubSeq(list, 1, Len(list) - 1)), list[Len(list)])

\* with_columns(expr.alias(name)): a new column goes to the end
WithColumn(cols, name) == IF name \in Names(cols) THEN cols ELSE Append(cols, name)

\* select(pl.col(*names)): the named columns in the order of the names
SelectColumns(cols, names) == SelectSeq(names, LAMBDA n : n \in Names(cols))

\* the columns of the table randomly_assign_census_features returns
OutColumns(feature_cols) ==
    SelectColumns(
        WithColumn(ReduceColumns([i \in 1..Len(feature_cols) |->
                                    SampleColumns(feature_cols[i])]), "person_id"),
        <<"person_id", "code", "long", "lat">> \o feature_cols)

\* sampled_features = [sample_census_feature(census, ..., feat_col) for feat_col
\* in feature_cols]: every list of frames the shuffles can give
RECURSIVE SampledFeatures(_, _)
SampledFeatures(census, feats) ==
    IF feats = <<>> THEN {<<>>}
    ELSE LET u == Universe(census, Head(feats))
         IN  {<<SampleCensusFeature(census, Head(feats), kept)>> \o rest :
                 kept \in ShuffleFilter(u, Groups(u)),
                 rest \in SampledFeatures(census, Tail(feats))}

\* ---------------------------------------------------------------- the program
\* the counts of a census frame; a count below 0 is invalid data that the frame can hold
TypeCounts == [Regions -> [Features -> (-1)..MaxQuota]]

AllPairs == Regions \X Features

RegionOrder == CHOOSE o \in Orders(Regions) : o[1] = "A"

RECURSIVE SumOver(_, _)
SumOver(n, regs) ==
    IF regs = {} THEN 0
    ELSE LET r == CHOOSE x \in regs : TRUE IN n[r] + SumOver(n, regs \ {r})

Init ==
    /\ \E n \in [Regions -> 0..MaxPool] :
           /\ SumOver(n, Regions) <= MaxPool
           /\ coords = CoordFrame(n, RegionOrder)
    /\ quota \in {q \in TypeCounts : SumAbs(q, AllPairs) <= MaxQuota}
    /\ order = RegionOrder
    /\ run = "first"
    /\ pc = "join"
    /\ joined = <<>>
    /\ sampled = <<>>
    /\ out = <<>>
    /\ status = "ok"
    /\ prev = <<>>
    /\ full = <<>>
    /\ out_cols = <<>>
    /\ GeoIdle
    /\ JoinIdle
    /\ RestIdle

\* scripts/home_allocation.py main: census_gnaf = join_census_with_coords(census, joined_coords)
Join ==
    /\ pc = "join"
    /\ joined' = JoinCensusWithCoords(Census(order, quota), coords)
    /\ pc' = "sample"
    /\ UNCHANGED <<coords, quota, order, run, sampled, out, status, prev, full, out_cols>>
    /\ UNCHANGED <<geoVars, joinVars, restVars>>

\* randomly_assign_census_features: the samples of every feature column, the
\* reduce, the row index and the column order
\* (the census frame here has no "Tot_" column for ignore_total to drop)
Allocate ==
    /\ pc = "sample"
    /\ \E s \in SampledFeatures(joined, FeatureCols) :
           /\ sampled' = s
           /\ out' = AssignIndex(Reduce(s))
    /\ out_cols' = OutColumns(FeatureCols)
    /\ pc' = "done"
    /\ UNCHANGED <<coords, quota, order, run, joined, status, prev, full>>
    /\ UNCHANGED <<geoVars, joinVars, restVars>>

\* repeat_by is handed a negative count.  The cast of the count to the unsigned
\* index type is the library's: a build that checks it raises and the call
\* returns nothing, a build that does not goes on with a null list (Allocate).
AllocateRaises ==
    /\ pc = "sample"
    /\ \E i \in 1..Len(joined) : \E f \in Features : joined[i].feat[f] < 0
    /\ status' = "PolarsError"
    /\ pc' = "done"
    /\ UNCHANGED <<coords, quota, order, run, joined, sampled, out, prev, full, out_cols>>
    /\ UNCHANGED <<geoVars, joinVars, restVars>>

\* the allocator is called once more on the same census and coordinate rows,
\* the census rows in any order
Again ==
    /\ pc = "done"
    /\ Len(out) <= MaxTwice
    /\ run = "first"
    /\ prev' = <<[order |-> order, status |-> status, out |-> out]>>
    /\ run' = "second"
    /\ order' \in Orders(Regions)
    /\ pc' = "join"
    /\ joined' = <<>>
    /\ sampled' = <<>>
    /\ out' = <<>>
    /\ status' = "ok"
    /\ out_cols' = <<>>
    /\ UNCHANGED <<coords, quota, full>>
    /\ UNCHANGED <<geoVars, joinVars, restVars>>

Next == Join \/ Allocate \/ AllocateRaises

\* one call of the allocator
Spec == Init /\ [][Next]_vars

\* _join_sampled_census_features on the samples of the two feature columns that
\* a call of the allocator drew (the allocator itself never calls it)
JoinSampled ==
    /\ pc = "done"
    /\ status = "ok"
    /\ run = "first"
    /\ full' = JoinSampledCensusFeatures(sampled[1], sampled[2]).rows
    /\ pc' = "full"
    /\ UNCHANGED <<coords, quota, order, run, joined, sampled, out, status, prev, out_cols>>
    /\ UNCHANGED <<geoVars, joinVars, restVars>>

NextFull == Join \/ Allocate \/ AllocateRaises \/ JoinSampled

\* one call of the allocator, then the full join of its samples
SpecFull == Init /\ [][NextFull]_vars

NextTwice == Join \/ Allocate \/ AllocateRaises \/ Again

\* two calls of the allocator on the same data
SpecTwice == Init /\ [][NextTwice]_vars

\* ---------------------------------------------------------------- area attribution
\* The coordinate reference systems.  A length of one unit in EPSG:7844 is
\* Unit(c) units in c: reprojecting changes the coordinates of a geometry.
CrsNames == {"EPSG:7844", "EPSG:3857"}

Unit(c) == IF c = "EPSG:7844" THEN 1 ELSE 2

\* the area polygons, in EPSG:7844: squares with the corners (lo, lo) and
\* (hi, hi), as in test_geography.py; the second lies inside the first
AreaPolygons ==
    << [lo |-> 0, hi |-> 4, SA2_NAME21 |-> "N0", SA1_CODE21 |-> "A"],
       [lo |-> 2, hi |-> 4, SA2_NAME21 |-> "N1", SA1_CODE21 |-> "B"],
       [lo |-> 7, hi |-> 9, SA2_NAME21 |-> "N2", SA1_CODE21 |-> "C"] >>

\* the x = y of the address points of the csv: inside the first polygon only,
\* inside the first two, outside all and as near to the first as to the
\* second, outside all and nearest to the third
Sites == {1, 3, 5, 6}

\* the csv frames of at most n address rows
RECURSIVE HouseFrames(_)
HouseFrames(n) ==
    IF n = 0 THEN {<<>>}
    ELSE HouseFrames(n - 1) \cup
         {Append(h, [x |-> v, y |-> v]) : h \in {g \in HouseFrames(n - 1) : Len(g) = n - 1},
                                          v \in Sites}

\* set_crs(allow_override): the frame is given the name of the other
\* reference system and its coordinates are left as they are
ToCrsRelabel(gdf, c) == [crs |-> c, rows |-> gdf.rows]

\* GeoDataFrame.to_crs(c): every coordinate of the geometry column is
\* transformed from the frame's reference system to c; the data columns stay
ToCrs(gdf, c) ==
    LET T(v) == (v * Unit(c)) \div Unit(gdf.crs)
    IN  [crs |-> c,
         rows |-> [k \in 1..Len(gdf.rows) |->
                     IF "lo" \in DOMAIN gdf.rows[k]
                     THEN [gdf.rows[k] EXCEPT !.lo = T(@), !.hi = T(@)]
                     ELSE [gdf.rows[k] EXCEPT !.gx = T(@), !.gy = T(@)]]]

\* gpd.read_file(shapefile_path): the polygons in the shapefile's own crs
ReadFile(c) ==
    [crs |-> c,
     rows |-> [k \in 1..Len(AreaPolygons) |->
                 [AreaPolygons[k] EXCEPT !.lo = @ * Unit(c), !.hi = @ * Unit(c)]]]

\* join_on_sa1.prepare_points: the csv rows become points (x, y) declared to
\* be in EPSG:7844 and are projected to the crs of the configuration; the
\* pandas index of a row is its position less one
PreparePoints(df, c) ==
    ToCrs([crs |-> "EPSG:7844",
           rows |-> [k \in 1..Len(df) |->
                       [idx |-> k - 1, x |-> df[k].x, y |-> df[k].y,
                        gx |-> df[k].x, gy |-> df[k].y]]], c)

\* predicate = "within": the point lies in the interior of the square
Within(p, g) == g.lo < p.gx /\ p.gx < g.hi /\ g.lo < p.gy /\ p.gy < g.hi

Gap(v, lo, hi) == IF v < lo THEN lo - v ELSE IF v > hi THEN v - hi ELSE 0

\* the square of the distance of a point from a square
Dist2(p, g) ==
    Gap(p.gx, g.lo, g.hi) * Gap(p.gx, g.lo, g.hi) + Gap(p.gy, g.lo, g.hi) * Gap(p.gy, g.lo, g.hi)

\* a row of a joined frame: the point with the columns of a polygon
WithArea(p, name, code) ==
    [idx |-> p.idx, x |-> p.x, y |-> p.y, gx |-> p.gx, gy |-> p.gy,
     SA2_NAME21 |-> name, SA1_CODE21 |-> code]

\* how = "inner": a point that no polygon contains has no row
SjoinWithinInner(points, polys) ==
    Flatten([i \in 1..Len(points) |->
        LET m == SelectSeq(polys, LAMBDA g : Within(points[i], g))
        IN  [k \in 1..Len(m) |-> WithArea(points[i], m[k].SA2_NAME21, m[k].SA1_CODE21)]])

\* the join with its duplicates dropped: a point has one row, of the first
\* polygon that contains it
SjoinWithinFirst(points, polys) ==
    [i \in 1..Len(points) |->
        LET m == SelectSeq(polys, LAMBDA g : Within(points[i], g))
        IN  IF m = <<>> THEN WithArea(points[i], NULL, NULL)
            ELSE WithArea(points[i], m[1].SA2_NAME21, m[1].SA1_CODE21)]

\* gpd.sjoin(points, polys, how = "left", predicate = "within"): a row for every
\* polygon that contains the point, one row of nulls for a point in none
SjoinWithin(points, polys) ==
    Flatten([i \in 1..Len(points) |->
        LET m == SelectSeq(polys, LAMBDA g : Within(points[i], g))
        IN  IF m = <<>> THEN <<WithArea(points[i], NULL, NULL)>>
            ELSE [k \in 1..Len(m) |->
                    WithArea(points[i], m[k].SA2_NAME21, m[k].SA1_CODE21)]])

\* the polygons at the least distance from the point, in the polygons' order
Nearest(p, polys) ==
    SelectSeq(polys, LAMBDA g : \A h \in {polys[k] : k \in 1..Len(polys)} :
                                    Dist2(p, g) <= Dist2(p, h))

\* the nearest join that takes any polygon for the nearest
SjoinNearestAny(points, polys) ==
    Flatten([i \in 1..Len(points) |->
        [k \in 1..Len(polys) |->
            WithArea(points[i], polys[k].SA2_NAME21, polys[k].SA1_CODE21)]])

\* gpd.sjoin_nearest(points, polys, how = "left"): a row for every polygon at
\* the least distance, so several rows with one index label for a point as
\* near to one polygon as to another
SjoinNearest(points, polys) ==
    Flatten([i \in 1..Len(points) |->
        LET m == Nearest(points[i], polys)
        IN  IF m = <<>> THEN <<WithArea(points[i], NULL, NULL)>>
            ELSE [k \in 1..Len(m) |->
                    WithArea(points[i], m[k].SA2_NAME21, m[k].SA1_CODE21)]])

\* the rows of a frame with the index label of row
Labelled(rows, row) == SelectSeq(rows, LAMBDA x : x.idx = row.idx)

\* the columns x, y, area, area_code of the result
ResultRow(r) == [x |-> r.x, y |-> r.y, area |-> r.SA2_NAME21, area_code |-> r.SA1_CODE21]

\* process_chunk(map_data, chunk).  The two assignments through
\* .loc[missing_points.index] align nearest_join on its index labels; with a
\* label that nearest_join holds twice the alignment is the library's: a pandas
\* that refuses to reindex on duplicated labels raises ValueError, one that
\* does not takes the label's first row.
ProcessChunk(polys, chunk, t) ==
    LET pnts_with_area == SjoinWithin(chunk, polys)
        missing_points == SelectSeq(pnts_with_area, LAMBDA r : r.SA2_NAME21 = NULL)
        nearest_join == SjoinNearest(missing_points, polys)
        dup == \E k \in 1..Len(missing_points) :
                   Len(Labelled(nearest_join, missing_points[k])) > 1
        filled == [k \in 1..Len(pnts_with_area) |->
                     IF pnts_with_area[k].SA2_NAME21 = NULL
                     THEN Labelled(nearest_join, pnts_with_area[k])[1]
                     ELSE pnts_with_area[k]]
    IN  IF dup /\ t = "raise"
        THEN [status |-> "ValueError", rows |-> <<>>]
        ELSE [status |-> "ok", rows |-> [k \in 1..Len(filled) |-> ResultRow(filled[k])]]

\* the split into chunks of equal size, short of one row in the later chunks
ArraySplitEven(rows, n) ==
    LET size == (Len(rows) + n - 1) \div n
    IN  [i \in 1..n |->
            SubSeq(rows, Min((i - 1) * size, Len(rows)) + 1, Min(i * size, Len(rows)) - 1)]

\* np.array_split(rows, n): n chunks in row order, the first Len(rows) % n
\* of them one row longer than the others; chunks can be empty
ArraySplit(rows, n) ==
    LET q == Len(rows) \div n
        r == Len(rows) % n
        start(i) == (i - 1) * q + Min(i - 1, r)
    IN  [i \in 1..n |-> SubSeq(rows, start(i) + 1, start(i + 1))]

Pending == [status |-> "pending", rows |-> <<>>]

\* houses_df.join(final_result, on = ["x", "y"], how = "left")
JoinOnXY(df, result) ==
    Flatten([i \in 1..Len(df) |->
        LET m == SelectSeq(result, LAMBDA r : r.x = df[i].x /\ r.y = df[i].y)
        IN  IF m = <<>>
            THEN <<[x |-> df[i].x, y |-> df[i].y, area |-> NULL, area_code |-> NULL]>>
            ELSE m])

\* no allocation is in progress
AllocIdle ==
    /\ coords = <<>>
    /\ quota = [r \in Regions |-> [f \in Features |-> 0]]
    /\ order = RegionOrder
    /\ run = "first"
    /\ pc = "idle"
    /\ joined = <<>>
    /\ sampled = <<>>
    /\ out = <<>>
    /\ status = "ok"
    /\ prev = <<>>
    /\ full = <<>>
    /\ out_cols = <<>>

\* join_on_sa1.main is about to run on a csv and a shapefile, or
\* parallel_process is called on its own with a point frame in the crs of the
\* configuration and the polygons as the shapefile stores them
InitAttr ==
    /\ AllocIdle
    /\ houses_df \in HouseFrames(MaxPool)
    /\ crs \in CrsNames
    /\ \E c \in CrsNames : shapefile = ReadFile(c)
    /\ num_cores \in 1..MaxCores
    /\ ties \in {"raise", "first"}
    /\ caller \in {"main", "direct"}
    /\ IF caller = "main"
       THEN /\ gpc = "prepare"
            /\ pnts_gdf = [crs |-> "EPSG:7844", rows |-> <<>>]
            /\ map_data = [crs |-> "EPSG:7844", rows |-> <<>>]
       ELSE /\ gpc = "split"
            /\ pnts_gdf = PreparePoints(houses_df, crs)
            /\ map_data = shapefile
    /\ chunks = <<>>
    /\ all_results = <<>>
    /\ final_result = <<>>
    /\ houses_with_areas = <<>>
    /\ gstatus = "ok"
    /\ strategy = NULL
    /\ joined_coords = <<>>
    /\ JoinIdle
    /\ RestIdle

\* join_on_sa1.main: pnts_gdf = prepare_points(houses_df, crs)
Prepare ==
    /\ gpc = "prepare"
    /\ pnts_gdf' = PreparePoints(houses_df, crs)
    /\ gpc' = "read"
    /\ UNCHANGED <<houses_df, crs, shapefile, map_data, num_cores, chunks, all_results,
                   final_result, houses_with_areas, gstatus, ties, caller, strategy,
                   joined_coords>>
    /\ UNCHANGED <<allocVars, joinVars, restVars>>

\* geography.prepare_points builds the point frame without a crs and calls
\* to_crs on it, which geopandas refuses for a frame that has none
PrepareNoCrs ==
    /\ gpc = "prepare"
    /\ gstatus' = "ValueError"
    /\ gpc' = "aborted"
    /\ UNCHANGED <<houses_df, crs, shapefile, pnts_gdf, map_data, num_cores, chunks,
                   all_results, final_result, houses_with_areas, ties, caller, strategy,
                   joined_coords>>
    /\ UNCHANGED <<allocVars, joinVars, restVars>>

\* map_data = gpd.read_file(shapefile_path).to_crs(pnts_gdf.crs)
ReadMapData ==
    /\ gpc = "read"
    /\ map_data' = ToCrs(shapefile, pnts_gdf.crs)
    /\ gpc' = "split"
    /\ UNCHANGED <<houses_df, crs, shapefile, pnts_gdf, num_cores, chunks, all_results,
                   final_result, houses_with_areas, gstatus, ties, caller, strategy,
                   joined_coords>>
    /\ UNCHANGED <<allocVars, joinVars, restVars>>

\* parallel_process: chunks = np.array_split(pnts_gdf, num_cores), and the
\* pool of num_cores workers is handed the chunks
Split ==
    /\ gpc = "split"
    /\ chunks' = ArraySplit(pnts_gdf.rows, num_cores)
    /\ all_results' = [i \in 1..num_cores |-> Pending]
    /\ gpc' = "map"
    /\ UNCHANGED <<houses_df, crs, shapefile, pnts_gdf, map_data, num_cores, final_result,
                   houses_with_areas, gstatus, ties, caller, strategy, joined_coords>>
    /\ UNCHANGED <<allocVars, joinVars, restVars>>

\* a worker of the pool runs process_chunk(map_data, chunk) on a chunk no
\* worker has taken, in any order of the chunks
Worker ==
    /\ gpc = "map"
    /\ \E i \in 1..Len(chunks) :
           /\ all_results[i] = Pending
           /\ all_results' = [all_results EXCEPT
                                 ![i] = ProcessChunk(map_data.rows, chunks[i], ties)]
    /\ UNCHANGED <<houses_df, crs, shapefile, pnts_gdf, map_data, num_cores, chunks,
                   final_result, houses_with_areas, gpc, gstatus, ties, caller, strategy,
                   joined_coords>>
    /\ UNCHANGED <<allocVars, joinVars, restVars>>

\* the results of the chunks that succeeded are stacked although a chunk failed
GatherSucceeded ==
    /\ gpc = "map"
    /\ \A i \in 1..Len(chunks) : all_results[i] # Pending
    /\ final_result' = Flatten([i \in 1..Len(chunks) |-> all_results[i].rows])
    /\ gpc' = "attributed"
    /\ UNCHANGED <<houses_df, crs, shapefile, pnts_gdf, map_data, num_cores, chunks,
                   all_results, houses_with_areas, gstatus, ties, caller, strategy,
                   joined_coords>>
    /\ UNCHANGED <<allocVars, joinVars, restVars>>

\* pool.map returns the results in the order of the chunks once every chunk
\* has one, and pl.concat stacks them
Gather ==
    /\ gpc = "map"
    /\ \A i \in 1..Len(chunks) : all_results[i].status = "ok"
    /\ final_result' = Flatten([i \in 1..Len(chunks) |-> all_results[i].rows])
    /\ gpc' = "attributed"
    /\ UNCHANGED <<houses_df, crs, shapefile, pnts_gdf, map_data, num_cores, chunks,
                   all_results, houses_with_areas, gstatus, ties, caller, strategy,
                   joined_coords>>
    /\ UNCHANGED <<allocVars, joinVars, restVars>>

\* pool.map raises the exception of a chunk as soon as the chunk has failed;
\* leaving the with block ends the pool, pl.concat is not reached, and
\* neither parallel_process nor main catches the exception
GatherRaises ==
    /\ gpc = "map"
    /\ \E i \in 1..Len(chunks) :
           /\ all_results[i].status \notin {"ok", "pending"}
           /\ gstatus' = all_results[i].status
    /\ gpc' = "aborted"
    /\ UNCHANGED <<houses_df, crs, shapefile, pnts_gdf, map_data, num_cores, chunks,
                   all_results, final_result, houses_with_areas, ties, caller, strategy,
                   joined_coords>>
    /\ UNCHANGED <<allocVars, joinVars, restVars>>

\* main: houses_with_areas = houses_df.join(final_result, ...); write_csv
WriteCsv ==
    /\ gpc = "attributed"
    /\ caller = "main"
    /\ houses_with_areas' = JoinOnXY(houses_df, final_result)
    /\ gpc' = "written"
    /\ UNCHANGED <<houses_df, crs, shapefile, pnts_gdf, map_data, num_cores, chunks,
                   all_results, final_result, gstatus, ties, caller, strategy,
                   joined_coords>>
    /\ UNCHANGED <<allocVars, joinVars, restVars>>

NextAttr ==
    Prepare \/ PrepareNoCrs \/ ReadMapData \/ Split \/ Worker \/ Gather \/ GatherRaises
        \/ WriteCsv

\* the attribution run of join_on_sa1.main, and parallel_process on its own
SpecAttr == InitAttr /\ [][NextAttr]_vars

\* join_coords_with_area(coords, area_polygons, failed_join_strategy): the
\* containment join, then the policy for the points no polygon contains: None
\* keeps the row with null area fields, "join_nearest" gives it the polygon at
\* the least distance (the first in the polygons' order on a tie), "filter"
\* omits it
JoinCoordsWithArea(points, area_polygons, failed_join_strategy) ==
    LET sjoined == SjoinWithin(points, area_polygons)
        near(r) == Nearest(r, area_polygons)
        rows == IF failed_join_strategy = "join_nearest"
                THEN [k \in 1..Len(sjoined) |->
                        IF sjoined[k].SA2_NAME21 = NULL /\ near(sjoined[k]) # <<>>
                        THEN WithArea(sjoined[k], near(sjoined[k])[1].SA2_NAME21,
                                      near(sjoined[k])[1].SA1_CODE21)
                        ELSE sjoined[k]]
                ELSE IF failed_join_strategy = "filter"
                THEN SelectSeq(sjoined, LAMBDA r : r.SA2_NAME21 # NULL)
                ELSE sjoined
    IN  [k \in 1..Len(rows) |-> ResultRow(rows[k])]

Strategies == {NULL, "join_nearest", "filter"}

\* scripts/join_shapefile_to_gnaf.py main: the shapefile and the addresses are
\* both read in the crs of the configuration, then sjoined under a strategy
InitArea ==
    /\ AllocIdle
    /\ houses_df \in HouseFrames(MaxPool)
    /\ crs \in CrsNames
    /\ \E c \in CrsNames : shapefile = ReadFile(c)
    /\ pnts_gdf = PreparePoints(houses_df, crs)
    /\ map_data = ToCrs(shapefile, crs)
    /\ strategy \in Strategies
    /\ caller = "script"
    /\ gpc = "join"
    /\ num_cores = 1
    /\ ties = "first"
    /\ chunks = <<>>
    /\ all_results = <<>>
    /\ final_result = <<>>
    /\ houses_with_areas = <<>>
    /\ gstatus = "ok"
    /\ joined_coords = <<>>
    /\ JoinIdle
    /\ RestIdle

\* joined_coords = join_coords_with_area(coords, shapefile, strategy)
JoinArea ==
    /\ gpc = "join"
    /\ joined_coords' = JoinCoordsWithArea(pnts_gdf.rows, map_data.rows, strategy)
    /\ gpc' = "joined"
    /\ UNCHANGED <<houses_df, crs, shapefile, pnts_gdf, map_data, num_cores, chunks,
                   all_results, final_result, houses_with_areas, gstatus, ties, caller,
                   strategy>>
    /\ UNCHANGED <<allocVars, joinVars, restVars>>

NextArea == JoinArea

\* one call of join_coords_with_area
SpecArea == InitArea /\ [][NextArea]_vars

\* ---------------------------------------------------------------- the join on its own
\* A code column is of dtype "int", its values integers, or of dtype "str",
\* its values sequences of characters: the digits 0..9, and 10 for a letter.
IntCodes == {3, 7, 45}

StrCodes == {<<3>>, <<0, 3>>, <<4, 5>>, <<10>>}

CodesOf(dtype) == IF dtype = "int" THEN IntCodes ELSE StrCodes

\* the string is a number
IsNumber(str) == Len(str) > 0 /\ \A i \in 1..Len(str) : str[i] \in 0..9

\* the integer a string of digits is parsed to
RECURSIVE ParseInt(_)
ParseInt(str) ==
    IF Len(str) = 1 THEN str[1]
    ELSE ParseInt(SubSeq(str, 1, Len(str) - 1)) * 10 + str[Len(str)]

\* the string an integer is formatted to
RECURSIVE Digits(_)
Digits(n) == IF n < 10 THEN <<n>> ELSE Digits(n \div 10) \o <<n % 10>>

\* pl.col(left_code_col).cast(dtype) on one value of dtype from
CastCode(v, from, to) ==
    IF from = to THEN v
    ELSE IF to = "int" THEN ParseInt(v)
    ELSE Digits(v)

\* the strict cast raises on a string that is not a number
CastFails(v, from, to) == from = "str" /\ to = "int" /\ ~IsNumber(v)

\* census.with_columns(pl.col(left_code_col).cast(coords.collect_schema()[right_code_col]))
CensusTypeCasted(census, crds) ==
    [i \in 1..Len(census.rows) |->
        [census.rows[i] EXCEPT !.code = CastCode(@, census.dtype, crds.dtype)]]

\* the sequences of at most n codes of the dtype
RECURSIVE CodeFrames(_, _)
CodeFrames(dtype, n) ==
    IF n = 0 THEN {<<>>}
    ELSE CodeFrames(dtype, n - 1) \cup
         {Append(h, c) : h \in {g \in CodeFrames(dtype, n - 1) : Len(g) = n - 1},
                         c \in CodesOf(dtype)}

\* a census row holds its position as its count, a coordinate row as its
\* coordinates
CensusOf(codes) == [i \in 1..Len(codes) |-> [code |-> codes[i], feat |-> i]]

CoordsOf(codes) == [k \in 1..Len(codes) |-> [code |-> codes[k], long |-> k, lat |-> k]]

\* join_census_with_coords is about to be called on a census frame and a
\* coordinate frame, either of them possibly empty
InitJoin ==
    /\ AllocIdle
    /\ GeoIdle
    /\ RestIdle
    /\ \E d \in {"int", "str"} : \E codes \in CodeFrames(d, MaxJoin) :
           census_lf = [dtype |-> d, rows |-> CensusOf(codes)]
    /\ \E d \in {"int", "str"} : \E codes \in CodeFrames(d, MaxJoin) :
           coords_lf = [dtype |-> d, rows |-> CoordsOf(codes)]
    /\ census_gnaf = <<>>
    /\ jstatus = "call"

\* join_census_with_coords(census, coords).collect()
JoinCall ==
    /\ jstatus = "call"
    /\ \A i \in 1..Len(census_lf.rows) :
           ~CastFails(census_lf.rows[i].code, census_lf.dtype, coords_lf.dtype)
    /\ census_gnaf' = JoinCensusWithCoords(CensusTypeCasted(census_lf, coords_lf),
                                           coords_lf.rows)
    /\ jstatus' = "ok"
    /\ UNCHANGED <<census_lf, coords_lf>>
    /\ UNCHANGED <<allocVars, geoVars, restVars>>

\* the cast of a census code fails and the call raises
JoinCallRaises ==
    /\ jstatus = "call"
    /\ \E i \in 1..Len(census_lf.rows) :
           CastFails(census_lf.rows[i].code, census_lf.dtype, coords_lf.dtype)
    /\ jstatus' = "InvalidOperationError"
    /\ UNCHANGED <<census_lf, coords_lf, census_gnaf>>
    /\ UNCHANGED <<allocVars, geoVars, restVars>>

NextJoin == JoinCall \/ JoinCallRaises

\* one call of join_census_with_coords
SpecJoin == InitJoin /\ [][NextJoin]_vars

\* ---------------------------------------------------------------- observations
Done == pc = "done"

Ok == pc = "done" /\ status = "ok"

\* the address pool of region r: its rows of the coordinate frame
Pool(r) == SelectSeq(coords, LAMBDA a : a.code = r)

\* the positions of the rows of table t in region r that are true for feature f
TrueRows(t, r, f) ==
    {k \in 1..Len(t) : t[k].code = r /\ f \in DOMAIN t[k].flags /\ t[k].flags[f]}

CountTrue(t, r, f) == Cardinality(TrueRows(t, r, f))

\* how many of the rows of t at the positions K lie at the address a
Occurrences(t, K, a) ==
    Cardinality({k \in K : t[k].long = a.long /\ t[k].lat = a.lat})

\* C1: after the allocation, for every region with a non-empty address pool and
\* every feature, the number of output rows of the region that are true for the
\* feature is the census count of the feature in the region, whatever the
\* shuffles gave (a census count is a non-negative integer).
C1_CountEqualsQuota ==
    Ok => \A r \in Regions : \A f \in Features :
            (Pool(r) # <<>> /\ quota[r][f] >= 0) => CountTrue(out, r, f) = quota[r][f]

\* a region with fewer addresses than its count still gets the count in full
C1_Witness ==
    /\ Ok
    /\ \E r \in Regions : \E f \in Features :
          /\ Pool(r) # <<>>
          /\ quota[r][f] > Len(Pool(r))
          /\ CountTrue(out, r, f) = quota[r][f]

\* C2: for every region and feature whose census count is at most the size of
\* the region's pool, the rows selected for the pair hold no address twice.
C2_NoRepeatedAddress ==
    Ok => \A r \in Regions : \A f \in Features :
            (quota[r][f] >= 0 /\ Len(Pool(r)) >= quota[r][f]) =>
                \A i \in 1..Len(Pool(r)) :
                    Occurrences(out, TrueRows(out, r, f), Pool(r)[i]) <= 1

\* C3: for every region and feature whose census count is above the size of the
\* region's non-empty pool, the count is met and every address of the pool
\* is selected at least floor(count / pool size) times; with 3 addresses and a
\* count of 4 exactly one address is repeated (3 different addresses selected).
C3_EveryAddressCovered ==
    Ok => \A r \in Regions : \A f \in Features :
            (0 < Len(Pool(r)) /\ Len(Pool(r)) < quota[r][f]) =>
                /\ CountTrue(out, r, f) = quota[r][f]
                /\ \A i \in 1..Len(Pool(r)) :
                      Occurrences(out, TrueRows(out, r, f), Pool(r)[i])
                          >= quota[r][f] \div Len(Pool(r))
                /\ (Len(Pool(r)) = 3 /\ quota[r][f] = 4) =>
                      Cardinality({i \in 1..Len(Pool(r)) :
                          Occurrences(out, TrueRows(out, r, f), Pool(r)[i]) > 0}) = 3

\* C4: every (code, longitude, latitude) of an output row is that of an address
\* row of the coordinate frame with the same region code.
C4_CoordinatesFromPool ==
    Done => \A k \in 1..Len(out) :
              \E i \in 1..Len(coords) :
                  /\ coords[i].code = out[k].code
                  /\ coords[i].long = out[k].long
                  /\ coords[i].lat = out[k].lat

\* rows of both regions are in the output
C4_Witness ==
    /\ Ok
    /\ \A r \in Regions : \E k \in 1..Len(out) : out[k].code = r

\* C5 as claimed: an empty pool with a positive count ends the allocation with
\* an AllocationError.
C5_EmptyPoolRaises ==
    (Done /\ \E r \in Regions : \E f \in Features : Pool(r) = <<>> /\ quota[r][f] > 0)
        => status = "AllocationError"

\* C5 as amended: a region whose pool is empty is dropped by the inner join:
\* the output has no row of it, whatever its counts, and the call raises no
\* error on its account (an error comes from a negative count of a region
\* that has addresses).
C5_EmptyPoolDropped ==
    Done => \A r \in Regions :
              Pool(r) = <<>> =>
                  /\ \A k \in 1..Len(out) : out[k].code # r
                  /\ status # "ok" =>
                        \E r2 \in Regions : \E f \in Features :
                            Pool(r2) # <<>> /\ quota[r2][f] < 0

\* a region with a positive count and no address, and rows of the other region
C5_Witness ==
    /\ Ok
    /\ \E r \in Regions : \E f \in Features : Pool(r) = <<>> /\ quota[r][f] > 0
    /\ Len(out) > 0

\* C6: a negative census count ends the allocation with an AllocationError and
\* without output rows.
C6_NegativeQuotaRaises ==
    (Done /\ \E r \in Regions : \E f \in Features : Pool(r) # <<>> /\ quota[r][f] < 0)
        => (status = "AllocationError" /\ out = <<>>)

\* C7: a census count of 0 gives no row for its (region, feature) pair and no
\* error (the call fails only on a negative count); a region whose counts are
\* all 0 has no row in the output, and the output is empty when every count
\* is 0.
C7_ZeroQuotaNoRows ==
    Done =>
        /\ status # "ok" => \E r \in Regions : \E f \in Features : quota[r][f] < 0
        /\ \A r \in Regions : \A f \in Features :
              quota[r][f] = 0 => CountTrue(out, r, f) = 0
        /\ \A r \in Regions :
              (\A f \in Features : quota[r][f] = 0) =>
                  \A k \in 1..Len(out) : out[k].code # r
        /\ (\A r \in Regions : \A f \in Features : quota[r][f] = 0) => out = <<>>

\* a region with addresses and only zero counts, next to a region with rows
C7_Witness ==
    /\ Ok
    /\ \E r \in Regions :
          /\ Pool(r) # <<>>
          /\ \A f \in Features : quota[r][f] = 0
    /\ Len(out) > 0

\* the first call, while the second is in progress
First == prev[1]

BothOk == run = "second" /\ Ok /\ First.status = "ok"

\* C8 as claimed: two calls on the same census and coordinate rows return the
\* same table.
C8_SameOutputTwice ==
    (BothOk /\ order = First.order) => out = First.out

\* C8 as amended: two calls on the same census and coordinate rows return
\* tables with the same number of rows, the same person_id and the same
\* feature flags row by row; the addresses selected may differ.
C8_SameShapeTwice ==
    (BothOk /\ order = First.order) =>
        /\ Len(out) = Len(First.out)
        /\ \A k \in 1..Len(out) :
              /\ out[k].person_id = First.out[k].person_id
              /\ out[k].flags = First.out[k].flags

\* two calls on the same rows that selected different addresses
C8_Witness ==
    /\ BothOk
    /\ order = First.order
    /\ out # First.out

\* the rows of region r in table t, without the row index
RegionRows(t, r) ==
    LET rows == SelectSeq(t, LAMBDA x : x.code = r)
    IN  [k \in 1..Len(rows) |->
            [code |-> rows[k].code, long |-> rows[k].long, lat |-> rows[k].lat,
             flags |-> rows[k].flags]]

\* C9 as claimed: the rows of a region are the same in two calls, whatever the
\* order of the regions in the census.
C9_SameRegionRowsAnyOrder ==
    BothOk => \A r \in Regions : RegionRows(out, r) = RegionRows(First.out, r)

\* C9 as amended: whatever the order of the regions in the census, two calls
\* give every region the same number of rows per feature, and as many rows in
\* all; the addresses selected are not reproducible.
C9_SameRegionCountsAnyOrder ==
    BothOk =>
        \A r \in Regions :
            /\ Len(RegionRows(out, r)) = Len(RegionRows(First.out, r))
            /\ \A f \in Features : CountTrue(out, r, f) = CountTrue(First.out, r, f)

\* two calls with the regions in different orders, both regions with rows
C9_Witness ==
    /\ BothOk
    /\ order # First.order
    /\ \A r \in Regions : RegionRows(out, r) # <<>>

\* the number of rows of the first i sampled frames
RECURSIVE RowsBefore(_, _)
RowsBefore(frames, i) ==
    IF i <= 1 THEN 0 ELSE Len(frames[i - 1].rows) + RowsBefore(frames, i - 1)

\* C10: the per-feature samples are stacked: the output has one row for every
\* row of every sample, in the order of the samples; the row is true for the
\* feature of its sample and false, not null, for every other feature.
C10_StackedOneFlag ==
    Ok =>
        /\ Len(out) = RowsBefore(sampled, Len(sampled) + 1)
        /\ \A k \in 1..Len(out) :
              /\ DOMAIN out[k].flags = Features
              /\ Cardinality({f \in Features : out[k].flags[f]}) = 1
        /\ \A i \in 1..Len(sampled) : \A j \in 1..Len(sampled[i].rows) :
              LET row == out[RowsBefore(sampled, i) + j]
              IN  /\ row.flags[FeatureCols[i]]
                  /\ row.code = sampled[i].rows[j].code
                  /\ row.long = sampled[i].rows[j].long
                  /\ row.lat = sampled[i].rows[j].lat

\* every feature has rows in the stacked output
C10_Witness ==
    /\ Ok
    /\ \A f \in Features : \E k \in 1..Len(out) : out[k].flags[f]

\* ---------------------------------------------------------------- the full join
FullDone == pc = "full"

\* the rows of region r in a frame
OfRegion(rows, r) == SelectSeq(rows, LAMBDA x : x.code = r)

\* the rows of a frame in which the flag of feature column f is true
FlagTrue(rows, f) == SelectSeq(rows, LAMBDA x : f \in DOMAIN x.flags /\ x.flags[f])

\* a region whose two counts are at least 1 and add up to the size of its pool
QuotasFillPool(r) ==
    /\ quota[r][FeatureCols[1]] >= 1
    /\ quota[r][FeatureCols[2]] >= 1
    /\ quota[r][FeatureCols[1]] + quota[r][FeatureCols[2]] = Len(Pool(r))

C19_PersonIdAndColumnOrder ==
    Ok =>
        /\ \A k \in 1..Len(out) : out[k].person_id = k - 1
        /\ out_cols = <<"person_id", "code", "long", "lat">> \o FeatureCols
        /\ \A k \in 1..Len(out) : DOMAIN out[k].flags = Features

\* a table with rows of both regions and of both features
C19_Witness ==
    /\ Ok
    /\ Len(out) >= MaxPool
    /\ \A r \in Regions : \E k \in 1..Len(out) : out[k].code = r
    /\ \A f \in Features : \E k \in 1..Len(out) : out[k].flags[f]

\* ---------------------------------------------------------------- the join claims
\* the census code of row i, cast, is the code of coordinate row k
CodesMatch(i, k) ==
    CastCode(census_lf.rows[i].code, census_lf.dtype, coords_lf.dtype) = coords_lf.rows[k].code

MatchingPairs ==
    {p \in (1..Len(census_lf.rows)) \X (1..Len(coords_lf.rows)) : CodesMatch(p[1], p[2])}

\* the rows of the output made of census row i and coordinate row k
PairRows(i, k) == SelectSeq(census_gnaf, LAMBDA x : x.feat = i /\ x.long = k)

\* C20: the output of join_census_with_coords has exactly one row for each
\* pair of a census row and a coordinate row whose codes are equal after the
\* cast of the census code, and no other row: a row of either frame without
\* a partner does not appear, and two empty frames give an empty frame
C20_InnerJoinAfterCast ==
    jstatus = "ok" =>
        /\ Len(census_gnaf) = Cardinality(MatchingPairs)
        /\ \A p \in MatchingPairs :
               /\ Len(PairRows(p[1], p[2])) = 1
               /\ PairRows(p[1], p[2])[1].code = coords_lf.rows[p[2]].code
               /\ PairRows(p[1], p[2])[1].lat = coords_lf.rows[p[2]].lat
        /\ (census_lf.rows = <<>> /\ coords_lf.rows = <<>>) => census_gnaf = <<>>

\* a census of string codes joined with coordinates of integer codes: a
\* census row whose code has a leading zero has a partner, another census row
\* and a coordinate row have none
C20_Witness ==
    /\ jstatus = "ok"
    /\ census_lf.dtype = "str" /\ coords_lf.dtype = "int"
    /\ \E p \in MatchingPairs :
           Len(census_lf.rows[p[1]].code) > 1 /\ census_lf.rows[p[1]].code[1] = 0
    /\ \E i \in 1..Len(census_lf.rows) : \A k \in 1..Len(coords_lf.rows) : ~CodesMatch(i, k)
    /\ \E k \in 1..Len(coords_lf.rows) : \A i \in 1..Len(census_lf.rows) : ~CodesMatch(i, k)
    /\ census_gnaf # <<>>

\* ---------------------------------------------------------------- attribution claims
\* the polygons handed to the join that contain the point
Containing(p) == SelectSeq(map_data.rows, LAMBDA g : Within(p, g))

\* the rows of a frame at the x and y of the point
At(rows, p) == SelectSeq(rows, LAMBDA r : r.x = p.x /\ r.y = p.y)

\* the rows of a frame with an area code
Coded(rows, code) == SelectSeq(rows, LAMBDA r : r.area_code = code)

\* the address points of the input, and how many of them lie at the point
Points == {pnts_gdf.rows[k] : k \in 1..Len(pnts_gdf.rows)}

Copies(p) == Len(At(pnts_gdf.rows, p))

AreaJoined == gpc = "joined"

\* C12 as stated: without a strategy every input address has exactly one row
\* in the output, with null area fields when no polygon contains it
C12_ExactlyOnce ==
    (AreaJoined /\ strategy = NULL) =>
        \A p \in Points :
            /\ Len(At(joined_coords, p)) = Copies(p)
            /\ Containing(p) = <<>> => \A k \in 1..Len(At(joined_coords, p)) :
                                          At(joined_coords, p)[k].area_code = NULL

\* C12 amended: without a strategy no input address is dropped; an address
\* that no polygon contains has one row, with null area fields, and an address
\* that k >= 1 polygons contain has k rows, none of them null
C12_OnceOrPerPolygon ==
    (AreaJoined /\ strategy = NULL) =>
        \A p \in Points :
            LET k == Len(Containing(p))
                rows == At(joined_coords, p)
            IN  /\ Len(rows) = Copies(p) * (IF k = 0 THEN 1 ELSE k)
                /\ \A i \in 1..Len(rows) :
                       /\ (rows[i].area_code = NULL) = (k = 0)
                       /\ (rows[i].area = NULL) = (k = 0)

\* no strategy, an address that no polygon contains and one that two contain
C12_Witness ==
    /\ AreaJoined /\ strategy = NULL
    /\ \E p, q \in Points :
           /\ Containing(p) = <<>> /\ Len(Coded(At(joined_coords, p), NULL)) = 1
           /\ Len(Containing(q)) > 1 /\ Len(At(joined_coords, q)) > 1

Attributed == gpc \in {"attributed", "written"}

NearestCodes(p) ==
    {map_data.rows[k].SA1_CODE21 :
        k \in {i \in 1..Len(map_data.rows) :
                  \A j \in 1..Len(map_data.rows) :
                      Dist2(p, map_data.rows[i]) <= Dist2(p, map_data.rows[j])}}

\* the pool was started and pool.map raised
PoolAborted == gpc = "aborted" /\ chunks # <<>>

C15_FilterKeepsMatched ==
    (AreaJoined /\ strategy = "filter") =>
        /\ \A p \in Points :
               LET inside == Containing(p)
               IN  /\ Len(At(joined_coords, p)) = Copies(p) * Len(inside)
                   /\ \A i \in 1..Len(inside) :
                          Len(Coded(At(joined_coords, p), inside[i].SA1_CODE21)) = Copies(p)
        /\ \A k \in 1..Len(joined_coords) :
               /\ joined_coords[k].area_code # NULL
               /\ \E p \in Points : At(<<joined_coords[k]>>, p) # <<>>

\* the strategy is "filter", an address outside every polygon is omitted
\* and an address inside two polygons is kept
C15_Witness ==
    /\ AreaJoined /\ strategy = "filter"
    /\ \E p, q \in Points :
           /\ Containing(p) = <<>> /\ At(joined_coords, p) = <<>>
           /\ Len(Containing(q)) = 2 /\ At(joined_coords, q) # <<>>

\* process_chunk on the whole point frame in one call
OneCall == ProcessChunk(map_data.rows, pnts_gdf.rows, ties)

\* parallel_process has split the points
Fanned == gpc \in {"map", "attributed", "written"} \/ PoolAborted

Mismatch == shapefile.crs # crs

\* C17 as stated: when the addresses and the polygons do not share a crs,
\* attribution returns no result, and the polygons handed to the join are the
\* shapefile's, not reprojected
C17_MismatchIsFatal ==
    Mismatch =>
        /\ ~Attributed
        /\ gpc \in {"split", "map"} => map_data = shapefile
        /\ PoolAborted => gstatus = "SpatialJoinError"

\* C17 amended: no run ends in a SpatialJoinError.  main reprojects the
\* polygons to the crs of the point frame before it calls parallel_process,
\* so the join it runs is on coordinates of one crs; parallel_process and
\* process_chunk neither compare the two crs nor reproject, and called with
\* frames of different crs they join the coordinates as they are
C17_CallerReprojects ==
    /\ gstatus # "SpatialJoinError"
    /\ Fanned =>
           /\ pnts_gdf.crs = crs
           /\ \A k \in 1..Len(pnts_gdf.rows) :
                  /\ pnts_gdf.rows[k].gx = houses_df[k].x * Unit(crs)
                  /\ pnts_gdf.rows[k].gy = houses_df[k].y * Unit(crs)
           /\ caller = "main" =>
                  /\ map_data.crs = crs
                  /\ \A k \in 1..Len(AreaPolygons) :
                         /\ map_data.rows[k].lo = AreaPolygons[k].lo * Unit(crs)
                         /\ map_data.rows[k].hi = AreaPolygons[k].hi * Unit(crs)
           /\ caller = "direct" => map_data = shapefile
    /\ (Attributed /\ Mismatch /\ caller = "direct") =>
           final_result = ProcessChunk(shapefile.rows, pnts_gdf.rows, ties).rows

\* main ran on a shapefile in another crs than the configuration's and wrote
\* the attributed addresses
C17_Witness ==
    /\ caller = "main" /\ Mismatch /\ gpc = "written"
    /\ map_data # shapefile
    /\ houses_with_areas # <<>>

\* a chunk has failed
ChunkFailed == \E i \in 1..Len(all_results) : all_results[i].status \notin {"ok", "pending"}

\* C18: once the attribution of a chunk has failed, parallel_process returns
\* no concatenated result and main writes nothing; the run ends with the
\* exception of a failed chunk
C18_FailedChunkAborts ==
    ChunkFailed =>
        /\ gpc \in {"map", "aborted"}
        /\ final_result = <<>>
        /\ houses_with_areas = <<>>
        /\ gpc = "aborted" => gstatus \notin {"ok", "pending"}

\* main's run was aborted by a failed chunk after another chunk had succeeded
\* with rows
C18_Witness ==
    /\ caller = "main" /\ gpc = "aborted" /\ ChunkFailed
    /\ \E i \in 1..Len(all_results) :
           all_results[i].status = "ok" /\ all_results[i].rows # <<>>

\* ======================================================================
\* write_csv_in_chunks (scripts/home_allocation.py)
\* ======================================================================

\* lf.columns
Columns == <<"address", "feature">>

\* cell values of the table, all strings that need no quoting
Cells == {"a", "b"}

\* the rows a table is made of
TableRows == {<<c1, c2>> : c1 \in Cells, c2 \in Cells}

\* the tables of at most n rows
RECURSIVE Tables(_)
Tables(n) ==
    IF n = 0 THEN {<<>>}
    ELSE Tables(n - 1) \cup
         {Append(t, r) : t \in {u \in Tables(n - 1) : Len(u) = n - 1}, r \in TableRows}

\* one line of csv text: the cells separated by commas
RECURSIVE CsvLine(_)
CsvLine(cells) ==
    IF Len(cells) = 0 THEN <<>>
    ELSE IF Len(cells) = 1 THEN <<cells[1]>>
    ELSE <<cells[1], ",">> \o CsvLine(Tail(cells))

\* a line some earlier run left in the file
StaleLine == CsvLine(<<"old", "line">>)

HeaderLine == CsvLine(Columns)

\* a slice that starts one row early
SliceOverlapping(df, off, length) ==
    SubSeq(df, IF off > 0 THEN off ELSE 1, Min(off + length, Len(df)))

\* DataFrame.slice(offset, length)
Slice(df, off, length) == SubSeq(df, off + 1, Min(off + length, Len(df)))

\* DataFrame.write_csv of a chunk without the header line
ChunkWriteCsvNoHeader(chunk) == [i \in 1..Len(chunk) |-> CsvLine(chunk[i])]

\* DataFrame.write_csv of a chunk, to a path or to a string: include_header
\* is True by default, so the header line comes first in both uses
ChunkWriteCsv(chunk) == <<HeaderLine>> \o [i \in 1..Len(chunk) |-> CsvLine(chunk[i])]

\* write_csv_in_chunks is called on a table, with a target that is absent,
\* empty or left by an earlier run
InitWrite ==
    /\ AllocIdle
    /\ GeoIdle
    /\ JoinIdle
    /\ lf \in Tables(MaxRows)
    /\ chunk_size \in 1..MaxChunk
    /\ target \in {<<>>, <<HeaderLine, StaleLine>>}
    /\ first_chunk = TRUE
    /\ offset = 0
    /\ wpc = "loop"
    /\ CallIdle
    /\ LoadIdle

\* the first slice of iter_slices: chunk.write_csv(output_path)
WriteFirstChunk ==
    /\ wpc = "loop"
    /\ offset < Len(lf)
    /\ first_chunk
    /\ target' = ChunkWriteCsv(Slice(lf, offset, chunk_size))
    /\ first_chunk' = FALSE
    /\ offset' = offset + chunk_size
    /\ UNCHANGED <<lf, chunk_size, wpc>>
    /\ UNCHANGED <<allocVars, geoVars, joinVars, callVars, loadVars>>

\* a later slice: open(output_path, "a") and f.write(chunk.write_csv())
AppendChunk ==
    /\ wpc = "loop"
    /\ offset < Len(lf)
    /\ ~first_chunk
    /\ target' = target \o ChunkWriteCsv(Slice(lf, offset, chunk_size))
    /\ offset' = offset + chunk_size
    /\ UNCHANGED <<lf, chunk_size, first_chunk, wpc>>
    /\ UNCHANGED <<allocVars, geoVars, joinVars, callVars, loadVars>>

\* iter_slices is exhausted: the function logs and returns
WriteReturn ==
    /\ wpc = "loop"
    /\ offset >= Len(lf)
    /\ wpc' = "done"
    /\ UNCHANGED <<lf, chunk_size, target, first_chunk, offset>>
    /\ UNCHANGED <<allocVars, geoVars, joinVars, callVars, loadVars>>

NextWrite == WriteFirstChunk \/ AppendChunk \/ WriteReturn

SpecWrite == InitWrite /\ [][NextWrite]_vars

\* ---------------------------------------------------------------- claims on the writer

\* the lines of a file that are not the header line
DataLines(file) == SelectSeq(file, LAMBDA l : l # HeaderLine)

\* the number of slices of the table
NumChunks == (Len(lf) + chunk_size - 1) \div chunk_size

\* C21: the chunks are written in table order by the one loop: once the first
\* chunk is written nothing of the earlier content is left, after each chunk
\* the data lines of the target are the rows written so far, in table order,
\* and after the last chunk they are every row of the table once, in order.
C21_ChunksInTableOrder ==
    /\ (wpc = "loop" /\ ~first_chunk) =>
          /\ \A i \in 1..Len(target) : target[i] # StaleLine
          /\ DataLines(target) = ChunkWriteCsvNoHeader(SubSeq(lf, 1, Min(offset, Len(lf))))
    /\ (wpc = "done" /\ Len(lf) > 0) =>
          DataLines(target) = ChunkWriteCsvNoHeader(lf)

C21_Witness ==
    /\ wpc = "done"
    /\ NumChunks = 3
    /\ lf[1] # lf[2]
    /\ target[1] = HeaderLine
    /\ DataLines(target) = ChunkWriteCsvNoHeader(lf)

\* C28: after a table of at least one chunk is written, the target is one
\* header line followed by the data rows: rows + 1 lines.
C28_OneHeaderLine ==
    (wpc = "done" /\ NumChunks >= 1) =>
        /\ Len(target) = Len(lf) + 1
        /\ target = <<HeaderLine>> \o ChunkWriteCsvNoHeader(lf)

\* C29: after write_csv_in_chunks returns, nothing of the earlier content
\* of the target is left, also for a table of zero rows.
C29_NoEarlierContent ==
    wpc = "done" => \A i \in 1..Len(target) : target[i] # StaleLine

\* ======================================================================
\* filter_sa1_regions (nhs/data/filter.py) and map_state_to_sa1_codes
\* (nhs/data/mapping.py), each called on its own
\* ======================================================================

\* the frames of at most n rows drawn from a set of rows
RECURSIVE Frames(_, _)
Frames(rowset, n) ==
    IF n = 0 THEN {<<>>}
    ELSE Frames(rowset, n - 1) \cup
         {Append(t, r) : t \in {u \in Frames(rowset, n - 1) : Len(u) = n - 1}, r \in rowset}

\* the elements of a list
Elems(list) == {list[i] : i \in 1..Len(list)}

\* is_in that lets a null through
IsInOrNull(v, list) == v = NULL \/ v \in Elems(list)

\* Expr.is_in(list) on one value: a null is in no list
IsIn(v, list) == v # NULL /\ v \in Elems(list)

\* rows of a frame with the columns SA1_CODE21, SA2_CODE21 and value
Sa1Rows ==
    {[SA1_CODE21 |-> a, SA2_CODE21 |-> b, value |-> v] :
        a \in {"11", "12", NULL}, b \in {"1", "2"}, v \in {"x"}}

\* region_codes and sa2_codes as the scripts pass them
RegionLists == {<<>>, <<"11">>, <<"12", "11">>, <<"99">>}
Sa2Lists == {<<>>, <<"1">>, <<"9">>}

\* filter_sa1_regions(lf, region_codes, sa2_codes)
FilterSa1Regions(frame, region_codes, sa2_codes) ==
    LET by_sa1 == IF region_codes # <<>>
                  THEN SelectSeq(frame, LAMBDA r : IsIn(r.SA1_CODE21, region_codes))
                  ELSE frame
    IN  IF sa2_codes # <<>>
        THEN SelectSeq(by_sa1, LAMBDA r : IsIn(r.SA2_CODE21, sa2_codes))
        ELSE by_sa1

\* state_mapping of map_state_to_sa1_codes: first digit of the code to state
StateMapping ==
    [d \in 1..9 |->
        CASE d = 1 -> "NSW" [] d = 2 -> "VIC" [] d = 3 -> "QLD" [] d = 4 -> "SA"
          [] d = 5 -> "WA" [] d = 6 -> "TAS" [] d = 7 -> "NT" [] d = 8 -> "ACT"
          [] OTHER -> "Other Territories"]

\* frames with the column SA1_CODE_2021 of integers or of strings of digits
StateFrames(dtype, n) ==
    LET codes == IF dtype = "int" THEN {10, 25, 81, 9}
                 ELSE {<<1, 0>>, <<2, 5>>, <<9>>, <<0, 1>>}
    IN  {[dtype |-> dtype, rows |-> f] :
            f \in Frames({[SA1_CODE_2021 |-> c, value |-> "x"] : c \in codes}, n)}

\* the lists of states handed to map_state_to_sa1_codes
StateLists ==
    {<<>>, <<"NSW">>, <<"VIC", "NSW">>, <<"ACT">>, <<"Other Territories">>,
     <<"OT">>, <<"NSW", "OT">>}

\* the last character in place of the first
LastChar(v, dtype) ==
    LET str == IF dtype = "int" THEN Digits(v) ELSE v
    IN  SubSeq(str, Len(str), Len(str))

\* pl.col(sa1_column).cast(pl.Utf8).str.slice(0, 1): the first character
FirstChar(v, dtype) ==
    LET str == IF dtype = "int" THEN Digits(v) ELSE v
    IN  SubSeq(str, 1, 1)

\* map_state_to_sa1_codes(lf, states)
MapStateToSa1Codes(frame, states) ==
    LET values == {StateMapping[d] : d \in DOMAIN StateMapping}
    IN  IF states = <<>> \/ ~(\A i \in 1..Len(states) : states[i] \in values)
        THEN <<>>
        ELSE LET state_digits == {<<d>> : d \in {k \in DOMAIN StateMapping :
                                                    StateMapping[k] \in Elems(states)}}
             IN  SelectSeq(frame.rows,
                           LAMBDA r : FirstChar(r.SA1_CODE_2021, frame.dtype) \in state_digits)

\* ---------------------------------------------------------------- strings
\* A string is a sequence of atoms (pieces of text that are matched whole).

\* keyword occurs in name at position p
OccursAt(keyword, name, p) ==
    /\ p >= 1
    /\ p + Len(keyword) - 1 <= Len(name)
    /\ SubSeq(name, p, p + Len(keyword) - 1) = keyword

\* regex.search(file) for the regex ".*k1.*k2. ... .*": the keywords occur
\* one after the other, in the order of the list
RECURSIVE SearchInOrder(_, _, _)
SearchInOrder(name, keywords, from) ==
    IF keywords = <<>> THEN TRUE
    ELSE \E p \in from..Len(name) :
            /\ OccursAt(Head(keywords), name, p)
            /\ SearchInOrder(name, Tail(keywords), p + Len(Head(keywords)))

\* match_files_by_keywords(file_list, keywords)
MatchFilesByKeywords(file_list, keywords) ==
    IF keywords = <<>> THEN <<>>
    ELSE SelectSeq(file_list, LAMBDA file : SearchInOrder(file, keywords, 1))

\* file names and lists of keywords (test_meta_data.py)
KeywordFiles ==
    {<<"report", "_", "2024">>, <<"2024", "_", "report">>, <<"data", "_", "2023">>,
     <<"data">>}

KeywordLists ==
    {<<>>, << <<"2024">> >>, << <<"report">>, <<"2024">> >>,
     << <<"report", "_">>, <<"_", "2024">> >>, << <<"2025">> >>}

\* a piece of literal text and a placeholder "{name}" of a pattern
Lit(text) == [kind |-> "lit", v |-> text]
Ph(name) == [kind |-> "ph", v |-> name]

\* capture_placeholders(s, placeholders): the placeholders of the list become
\* capturing groups "(.*?)", the other placeholders ".*?", and the remaining
\* text is escaped so that it matches itself
CapturePlaceholders(pattern, placeholders) ==
    [i \in 1..Len(pattern) |->
        IF pattern[i].kind = "ph"
        THEN IF pattern[i].v \in Elems(placeholders)
             THEN [kind |-> "cap", v |-> pattern[i].v]
             ELSE [kind |-> "any", v |-> pattern[i].v]
        ELSE pattern[i]]

NoMatch == [ok |-> FALSE, groups |-> <<>>]

\* re.match(regex, string): the regex is matched from the start of the string
\* and need not reach its end; a lazy ".*?" takes the fewest atoms with which
\* the rest of the regex still matches.  The result holds groups().
RECURSIVE MatchAt(_, _, _, _)
RECURSIVE Lazy(_, _, _, _, _)
MatchAt(regex, i, str, j) ==
    IF i > Len(regex) THEN [ok |-> TRUE, groups |-> <<>>]
    ELSE IF regex[i].kind = "lit"
    THEN IF j <= Len(str) /\ str[j] = regex[i].v
         THEN MatchAt(regex, i + 1, str, j + 1)
         ELSE NoMatch
    ELSE Lazy(regex, i, str, j, 0)

Lazy(regex, i, str, j, k) ==
    IF j + k > Len(str) + 1 THEN NoMatch
    ELSE LET rest == MatchAt(regex, i + 1, str, j + k)
         IN  IF rest.ok
             THEN [ok |-> TRUE,
                   groups |-> (IF regex[i].kind = "cap"
                               THEN <<SubSeq(str, j, j + k - 1)>> ELSE <<>>) \o rest.groups]
             ELSE Lazy(regex, i, str, j, k + 1)

ReMatch(regex, str) == MatchAt(regex, 1, str, 1)

\* placeholder_matches(str_list, pattern, placeholders)
PlaceholderMatches(str_list, pattern, placeholders) ==
    LET regex == CapturePlaceholders(pattern, placeholders)
        matches == [i \in 1..Len(str_list) |-> ReMatch(regex, str_list[i])]
        found == SelectSeq(matches, LAMBDA m : m.ok)
    IN  [i \in 1..Len(found) |-> found[i].groups]

\* strings, patterns and lists of placeholders (test_string.py)
MatchStrings ==
    {<<"file", "1", ".csv">>, <<"file", "2", ".csv">>, <<"eye", "_", "sp">>, <<"other">>}

MatchPatterns ==
    {<<>>, <<Lit("file"), Ph("key"), Lit(".csv")>>, <<Ph("organ"), Lit("_"), Ph("observer")>>,
     <<Lit("eye"), Lit("_"), Lit("sp")>>}

PlaceholderLists == {<<>>, <<"key">>, <<"organ", "observer">>, <<"observer">>}

\* ---------------------------------------------------------------- standardize_names

\* str.lower() on one atom
Lower(atom) ==
    CASE atom = "LONG" -> "long"
      [] atom = "Long" -> "long"
      [] OTHER -> atom

\* long.lower().replace(" ", "_")
SnakeCase(long) == [i \in 1..Len(long) |-> IF long[i] = " " THEN "_" ELSE Lower(long[i])]

\* the keys of census_metadata[census_code_col]
MetaKeys(census_metadata) ==
    {census_metadata[i].DataPackfile : i \in 1..Len(census_metadata)}

\* result_dict[key]: short name to standard name, a later row replacing an
\* earlier row of the same short name
RECURSIVE ResultDict(_, _)
ResultDict(census_metadata, key) ==
    IF census_metadata = <<>> THEN <<>>
    ELSE LET n == Len(census_metadata)
             row == census_metadata[n]
             before == ResultDict(SubSeq(census_metadata, 1, n - 1), key)
         IN  IF row.DataPackfile # key THEN before
             ELSE IF \E i \in 1..Len(before) : before[i].short = row.Short
             THEN [i \in 1..Len(before) |->
                      IF before[i].short = row.Short
                      THEN [short |-> row.Short, long |-> SnakeCase(row.Long)]
                      ELSE before[i]]
             ELSE Append(before, [short |-> row.Short, long |-> SnakeCase(row.Long)])

\* LazyFrame.rename(mapping) on the column names of a frame
Rename(columns, mapping) ==
    [i \in 1..Len(columns) |->
        IF \E k \in 1..Len(mapping) : mapping[k].short = columns[i]
        THEN (CHOOSE m \in Elems(mapping) : m.short = columns[i]).long
        ELSE columns[i]]

\* standardize_names(df_dict, census_metadata), when no key is missing
StandardizeNames(df_dict, census_metadata) ==
    [i \in 1..Len(df_dict) |->
        [key |-> df_dict[i].key,
         columns |-> Rename(df_dict[i].columns, ResultDict(census_metadata, df_dict[i].key))]]

\* the dictionaries of frames and the metadata frames (test_handling.py)
ShortColumns == << <<"SHORT1">>, <<"SHORT2">> >>

DfDicts ==
    {<<>>} \cup
    {<<[key |-> k, columns |-> ShortColumns]>> : k \in {"G01", "G02"}} \cup
    {<<[key |-> p[1], columns |-> ShortColumns], [key |-> p[2], columns |-> ShortColumns]>> :
        p \in {<<"G01", "G02">>, <<"G02", "G01">>}}

MetaRows ==
    {[DataPackfile |-> k, Short |-> p[1], Long |-> p[2]] :
        k \in {"G01", "G02"},
        p \in {<< <<"SHORT1">>, <<"LONG", " ", "1">> >>, << <<"SHORT2">>, <<"Long", " ", "2">> >>}}

\* one of the functions is called on its own
InitCall ==
    /\ AllocIdle
    /\ GeoIdle
    /\ JoinIdle
    /\ FileIdle
    /\ \/ \E f \in Frames(Sa1Rows, MaxLen), rc \in RegionLists, s2 \in Sa2Lists :
            call = [fn |-> "filter_sa1_regions", lf |-> f, region_codes |-> rc,
                    sa2_codes |-> s2]
       \/ \E dt \in {"int", "str"} : \E f \in StateFrames(dt, MaxLen), st \in StateLists :
            call = [fn |-> "map_state_to_sa1_codes", lf |-> f, states |-> st]
       \/ \E fl \in Frames(KeywordFiles, MaxLen), kw \in KeywordLists :
            call = [fn |-> "match_files_by_keywords", file_list |-> fl, keywords |-> kw]
       \/ \E sl \in Frames(MatchStrings, MaxLen - 1), pt \in MatchPatterns,
             ph \in PlaceholderLists :
            call = [fn |-> "placeholder_matches", str_list |-> sl, pattern |-> pt,
                    placeholders |-> ph]
       \/ \E dd \in DfDicts, md \in Frames(MetaRows, MaxLen) :
            call = [fn |-> "standardize_names", df_dict |-> dd, census_metadata |-> md]
    /\ ret = <<>>
    /\ cstatus = "called"
    /\ LoadIdle

CallFilterSa1Regions ==
    /\ cstatus = "called"
    /\ call.fn = "filter_sa1_regions"
    /\ ret' = FilterSa1Regions(call.lf, call.region_codes, call.sa2_codes)
    /\ cstatus' = "returned"
    /\ UNCHANGED call
    /\ UNCHANGED <<allocVars, geoVars, joinVars, fileVars, loadVars>>

CallMapStateToSa1Codes ==
    /\ cstatus = "called"
    /\ call.fn = "map_state_to_sa1_codes"
    /\ ret' = MapStateToSa1Codes(call.lf, call.states)
    /\ cstatus' = "returned"
    /\ UNCHANGED call
    /\ UNCHANGED <<allocVars, geoVars, joinVars, fileVars, loadVars>>

CallMatchFilesByKeywords ==
    /\ cstatus = "called"
    /\ call.fn = "match_files_by_keywords"
    /\ ret' = MatchFilesByKeywords(call.file_list, call.keywords)
    /\ cstatus' = "returned"
    /\ UNCHANGED call
    /\ UNCHANGED <<allocVars, geoVars, joinVars, fileVars, loadVars>>

CallPlaceholderMatches ==
    /\ cstatus = "called"
    /\ call.fn = "placeholder_matches"
    /\ ret' = PlaceholderMatches(call.str_list, call.pattern, call.placeholders)
    /\ cstatus' = "returned"
    /\ UNCHANGED call
    /\ UNCHANGED <<allocVars, geoVars, joinVars, fileVars, loadVars>>

\* every key of df_dict is in result_dict: the frames are renamed
CallStandardizeNames ==
    /\ cstatus = "called"
    /\ call.fn = "standardize_names"
    /\ \A i \in 1..Len(call.df_dict) : call.df_dict[i].key \in MetaKeys(call.census_metadata)
    /\ ret' = StandardizeNames(call.df_dict, call.census_metadata)
    /\ cstatus' = "returned"
    /\ UNCHANGED call
    /\ UNCHANGED <<allocVars, geoVars, joinVars, fileVars, loadVars>>

\* a key of df_dict is not in result_dict: result_dict[key] raises KeyError
CallStandardizeNamesRaises ==
    /\ cstatus = "called"
    /\ call.fn = "standardize_names"
    /\ \E i \in 1..Len(call.df_dict) : call.df_dict[i].key \notin MetaKeys(call.census_metadata)
    /\ cstatus' = "KeyError"
    /\ UNCHANGED <<call, ret>>
    /\ UNCHANGED <<allocVars, geoVars, joinVars, fileVars, loadVars>>

NextCall ==
    \/ CallFilterSa1Regions
    \/ CallMapStateToSa1Codes
    \/ CallMatchFilesByKeywords
    \/ CallPlaceholderMatches
    \/ CallStandardizeNames
    \/ CallStandardizeNamesRaises

SpecCall == InitCall /\ [][NextCall]_vars

\* ---------------------------------------------------------------- claims on the filters

\* fn was called and has returned
Returned(fn) == cstatus = "returned" /\ call.fn = fn

\* the rows of a frame at the positions idx up to n, in the order of the frame
RECURSIVE RowsAt(_, _, _)
RowsAt(frame, idx, n) ==
    IF n = 0 THEN <<>>
    ELSE RowsAt(frame, idx, n - 1) \o (IF n \in idx THEN <<frame[n]>> ELSE <<>>)

RECURSIVE LeadingDigit(_)
LeadingDigit(n) == IF n < 10 THEN n ELSE LeadingDigit(n \div 10)

\* C24: map_state_to_sa1_codes returns, in the order of lf and with every
\* column, exactly the rows whose code's first digit is the digit of one of
\* the given states (1 NSW ... 8 ACT, 9 Other Territories), and the frame of
\* no rows when states is empty or names an unknown state.
C24_RowsOfGivenStates ==
    Returned("map_state_to_sa1_codes") =>
        LET known == {"NSW", "VIC", "QLD", "SA", "WA", "TAS", "NT", "ACT", "Other Territories"}
            digit(s) ==
                CASE s = "NSW" -> 1 [] s = "VIC" -> 2 [] s = "QLD" -> 3 [] s = "SA" -> 4
                  [] s = "WA" -> 5 [] s = "TAS" -> 6 [] s = "NT" -> 7 [] s = "ACT" -> 8
                  [] OTHER -> 9
            first(r) == IF call.lf.dtype = "int" THEN LeadingDigit(r.SA1_CODE_2021)
                        ELSE r.SA1_CODE_2021[1]
            wanted(r) == \E i \in 1..Len(call.states) : first(r) = digit(call.states[i])
        IN  IF call.states = <<>> \/ \E i \in 1..Len(call.states) : call.states[i] \notin known
            THEN ret = <<>>
            ELSE ret = RowsAt(call.lf.rows,
                              {i \in 1..Len(call.lf.rows) : wanted(call.lf.rows[i])},
                              Len(call.lf.rows))

C24_Witness ==
    /\ Returned("map_state_to_sa1_codes")
    /\ call.states = <<"VIC", "NSW">>
    /\ call.lf.dtype = "int"
    /\ Len(call.lf.rows) = 3
    /\ Len(ret) = 2
    /\ ret[1].SA1_CODE_2021 = 25
    /\ ret[2].SA1_CODE_2021 = 10

\* ---------------------------------------------------------------- claims on the string functions

\* name contains keyword somewhere
Contains(name, keyword) == \E p \in 1..Len(name) : OccursAt(keyword, name, p)

\* C25: match_files_by_keywords returns, in input order, exactly the files
\* whose name contains all of the keywords, in any order of occurrence, and
\* the empty list when keywords or file_list is empty.
C25_AllKeywordsAnyOrder ==
    Returned("match_files_by_keywords") =>
        LET all(file) == \A i \in 1..Len(call.keywords) : Contains(file, call.keywords[i])
        IN  IF call.keywords = <<>> \/ call.file_list = <<>>
            THEN ret = <<>>
            ELSE ret = RowsAt(call.file_list,
                              {i \in 1..Len(call.file_list) : all(call.file_list[i])},
                              Len(call.file_list))

\* C27: placeholder_matches returns one tuple of captured values per string
\* that matches the pattern, in input order, and the empty list when
\* str_list, placeholders or the pattern is empty or when no string matches.
C27_TuplePerMatchOrEmpty ==
    Returned("placeholder_matches") =>
        LET regex == CapturePlaceholders(call.pattern, call.placeholders)
            hits == SelectSeq(call.str_list, LAMBDA str : ReMatch(regex, str).ok)
        IN  IF \/ call.str_list = <<>>
               \/ call.placeholders = <<>>
               \/ call.pattern = <<>>
               \/ hits = <<>>
            THEN ret = <<>>
            ELSE /\ Len(ret) = Len(hits)
                 /\ \A i \in 1..Len(hits) : ret[i] = ReMatch(regex, hits[i]).groups

\* C26: standardize_names renames the columns of every frame whose key is in
\* the metadata's code column to the lower-cased, underscore-joined long name,
\* and returns every frame whose key is not in the metadata with its column
\* names unchanged, without raising.
C26_RenamedOrUnchanged ==
    (call.fn = "standardize_names" /\ cstatus # "called") =>
        /\ cstatus = "returned"
        /\ Len(ret) = Len(call.df_dict)
        /\ \A i \in 1..Len(call.df_dict) :
              LET key == call.df_dict[i].key
                  rows == SelectSeq(call.census_metadata, LAMBDA r : r.DataPackfile = key)
              IN  /\ ret[i].key = key
                  /\ rows = <<>> => ret[i].columns = call.df_dict[i].columns
                  /\ \A k \in 1..Len(rows) :
                        (\A l \in (k + 1)..Len(rows) : rows[l].Short # rows[k].Short) =>
                            \A c \in 1..Len(ret[i].columns) :
                                call.df_dict[i].columns[c] = rows[k].Short =>
                                    ret[i].columns[c] = SnakeCase(rows[k].Long)

\* ======================================================================
\* read_spreadsheets (nhs/data/handling.py) and load_gnaf_files_by_states
\* (nhs/data/filter.py)
\* ======================================================================

\* the listings of at most n different files, each readable or not
RECURSIVE Listings(_, _)
Listings(names, n) ==
    IF n = 0 THEN {<<>>}
    ELSE LET shorter == Listings(names, n - 1)
             longest == {l \in shorter : Len(l) = n - 1}
         IN  shorter \cup
             {Append(p[1], [name |-> p[2], readable |-> p[3]]) :
                 p \in {q \in longest \X names \X BOOLEAN :
                           \A i \in 1..Len(q[1]) : q[1][i].name # q[2]}}

\* "{state}_{kind}_psv.parquet"
GnafName(state, kind) == <<state, "_", kind, "_psv", ".parquet">>

GnafNames ==
    {GnafName("ACT", "ADDRESS_DEFAULT_GEOCODE"), GnafName("ACT", "ADDRESS_DETAIL"),
     GnafName("WA", "ADDRESS_DEFAULT_GEOCODE"), GnafName("ACT", "ADDRESS_ALIAS")}

\* the files of a directory of spreadsheets (test_handling.py)
SheetNames ==
    {<<"file", "1", ".csv">>, <<"file", "2", ".csv">>, <<"other", ".csv">>,
     <<"notes", ".txt">>}

\* "dir/", "dir/file{key}.csv" and "dir/{key}.csv"
SheetPatterns ==
    {<<>>, <<Lit("file"), Ph("key"), Lit(".csv")>>, <<Ph("key"), Lit(".csv")>>}

\* all_state_codes of load_gnaf_files_by_states
AllStateCodes == <<"NSW", "ACT", "VIC", "QLD", "SA", "WA", "TAS", "NT", "OT">>

GnafStateLists == {<<>>, <<"ACT">>, <<"WA", "ACT">>}

\* what a reader returns for a file it could not read
NONE == [ok |-> FALSE, file |-> <<>>]

\* a reader that raises inside returns None through logger.catch
Reader(f) == IF f.readable THEN [ok |-> TRUE, file |-> f.name] ELSE NONE

\* str.endswith("." + extension)
EndsWith(name, ext) == Len(name) > 0 /\ name[Len(name)] = ext

\* "{key}" in file_dir_pattern
HasKey(pattern) == \E i \in 1..Len(pattern) : pattern[i] = Ph("key")

\* d[k] = v on a dictionary kept in insertion order
DictSet(d, k, v) ==
    IF \E i \in 1..Len(d) : d[i].key = k
    THEN [i \in 1..Len(d) |-> IF d[i].key = k THEN [key |-> k, val |-> v] ELSE d[i]]
    ELSE Append(d, [key |-> k, val |-> v])

\* the dictionary a comprehension builds from its pairs
RECURSIVE DictOf(_)
DictOf(pairs) ==
    IF pairs = <<>> THEN <<>>
    ELSE LET n == Len(pairs)
         IN  DictSet(DictOf(SubSeq(pairs, 1, n - 1)), pairs[n].key, pairs[n].val)

\* the pairs of the comprehension over state_name in states and the items of
\* all_files, for the files whose key holds "{state_name}_{kind}"
RECURSIVE StatePairs(_, _, _)
StatePairs(state_names, dict, kind) ==
    IF state_names = <<>> THEN <<>>
    ELSE LET state_name == Head(state_names)
             hits == SelectSeq(dict,
                        LAMBDA e : /\ Contains(e.key, <<state_name, "_", kind>>)
                                   /\ e.val.ok)
         IN  [i \in 1..Len(hits) |->
                 [key |-> hits[i].key,
                  val |-> [file |-> hits[i].val.file, state |-> state_name]]]
             \o StatePairs(Tail(state_names), dict, kind)

\* pl.concat(list(d.values())), or the empty frame
ConcatValues(d) == [i \in 1..Len(d) |-> d[i].val]

\* read_spreadsheets is called on a directory of spreadsheets, or
\* load_gnaf_files_by_states on a directory of parquet files
InitLoad ==
    /\ AllocIdle
    /\ GeoIdle
    /\ JoinIdle
    /\ FileIdle
    /\ CallIdle
    /\ entry \in {"read_spreadsheets", "load_gnaf_files_by_states"}
    /\ IF entry = "read_spreadsheets"
       THEN /\ files \in Listings(SheetNames, MaxFiles)
            /\ file_dir_pattern \in SheetPatterns
            /\ extension = ".csv"
            /\ gnaf_states = <<>>
            /\ lpc = "list"
       ELSE /\ files \in Listings(GnafNames, MaxFiles)
            /\ file_dir_pattern = <<>>
            /\ extension = ".parquet"
            /\ gnaf_states \in GnafStateLists
            /\ lpc = "start"
    /\ enabled = TRUE
    /\ log = <<>>
    /\ keys = <<>>
    /\ ridx = 1
    /\ all_files = <<>>
    /\ default_geocode_lf = <<>>
    /\ address_detail_lf = <<>>

\* load_gnaf_files_by_states: logger.disable("nhs"); an empty list of states
\* stands for all states
DisableLogging ==
    /\ lpc = "start"
    /\ enabled' = FALSE
    /\ gnaf_states' = IF gnaf_states = <<>> THEN AllStateCodes ELSE gnaf_states
    /\ lpc' = "list"
    /\ UNCHANGED <<entry, files, file_dir_pattern, extension, log, keys, ridx, all_files,
                   default_geocode_lf, address_detail_lf>>
    /\ UNCHANGED <<allocVars, geoVars, joinVars, fileVars, callVars>>

\* read_spreadsheets: the files of the extension and the keys
ListFiles ==
    /\ lpc = "list"
    /\ LET of_ext == SelectSeq(files, LAMBDA f : EndsWith(f.name, extension))
           names == [i \in 1..Len(of_ext) |-> of_ext[i].name]
           found == PlaceholderMatches(names, file_dir_pattern, <<"key">>)
       IN  /\ files' = of_ext
           /\ keys' = IF ~HasKey(file_dir_pattern) THEN names
                      ELSE [i \in 1..Len(found) |-> found[i][1]]
    /\ ridx' = 1
    /\ lpc' = "read"
    /\ UNCHANGED <<entry, file_dir_pattern, extension, gnaf_states, enabled, log, all_files,
                   default_geocode_lf, address_detail_lf>>
    /\ UNCHANGED <<allocVars, geoVars, joinVars, fileVars, callVars>>

\* one pair of zip(keys, map(reader, files)): the next key and the frame of
\* the next file; a failure of the reader is logged when logging is enabled
ReadNext ==
    /\ lpc = "read"
    /\ ridx <= Len(keys)
    /\ ridx <= Len(files)
    /\ all_files' = DictSet(all_files, keys[ridx], Reader(files[ridx]))
    /\ log' = IF ~files[ridx].readable /\ enabled THEN Append(log, files[ridx].name) ELSE log
    /\ ridx' = ridx + 1
    /\ UNCHANGED <<entry, files, file_dir_pattern, extension, gnaf_states, enabled, keys,
                   default_geocode_lf, address_detail_lf, lpc>>
    /\ UNCHANGED <<allocVars, geoVars, joinVars, fileVars, callVars>>

\* zip is exhausted: read_spreadsheets returns the dictionary
ReadReturn ==
    /\ lpc = "read"
    /\ ridx > Len(keys) \/ ridx > Len(files)
    /\ lpc' = IF entry = "read_spreadsheets" THEN "done" ELSE "combine"
    /\ UNCHANGED <<entry, files, file_dir_pattern, extension, gnaf_states, enabled, log, keys,
                   ridx, all_files, default_geocode_lf, address_detail_lf>>
    /\ UNCHANGED <<allocVars, geoVars, joinVars, fileVars, callVars>>

\* load_gnaf_files_by_states: the two dictionaries, their concatenation and
\* logger.enable("nhs")
Combine ==
    /\ lpc = "combine"
    /\ default_geocode_lf' =
          ConcatValues(DictOf(StatePairs(gnaf_states, all_files, "ADDRESS_DEFAULT_GEOCODE")))
    /\ address_detail_lf' =
          ConcatValues(DictOf(StatePairs(gnaf_states, all_files, "ADDRESS_DETAIL")))
    /\ enabled' = TRUE
    /\ lpc' = "done"
    /\ UNCHANGED <<entry, files, file_dir_pattern, extension, gnaf_states, log, keys, ridx,
                   all_files>>
    /\ UNCHANGED <<allocVars, geoVars, joinVars, fileVars, callVars>>

NextLoad == DisableLogging \/ ListFiles \/ ReadNext \/ ReadReturn \/ Combine

SpecLoad == InitLoad /\ [][NextLoad]_vars

\* ---------------------------------------------------------------- claims on the loading

\* load_gnaf_files_by_states has returned
Loaded == entry = "load_gnaf_files_by_states" /\ lpc = "done"

\* the files of the listing that could not be read
Unreadable == {i \in 1..Len(files) : ~files[i].readable}

\* the readable files of a kind that belong to one of the states asked for
ReadOk(kind) ==
    {files[i].name : i \in {k \in 1..Len(files) :
        /\ files[k].readable
        /\ \E j \in 1..Len(gnaf_states) : files[k].name = GnafName(gnaf_states[j], kind)}}

\* C22: a file that cannot be read is logged and skipped: its reader returns
\* None instead of raising, the other files are still read, and the frames
\* load_gnaf_files_by_states returns are built from exactly the files that
\* were read.
C22_UnreadableLoggedAndSkipped ==
    Loaded =>
        /\ \A i \in Unreadable : \E k \in 1..Len(log) : log[k] = files[i].name
        /\ \A i \in 1..Len(files) :
              \E e \in 1..Len(all_files) :
                  /\ all_files[e].key = files[i].name
                  /\ all_files[e].val = Reader(files[i])
        /\ {default_geocode_lf[i].file : i \in 1..Len(default_geocode_lf)}
              = ReadOk("ADDRESS_DEFAULT_GEOCODE")
        /\ {address_detail_lf[i].file : i \in 1..Len(address_detail_lf)}
              = ReadOk("ADDRESS_DETAIL")

\* C30: with a "{key}" pattern every key of the result of read_spreadsheets
\* maps to the frame read from the file whose name produced the key, also
\* when files of the extension do not match the pattern.
C30_KeyOfItsOwnFile ==
    (entry = "read_spreadsheets" /\ lpc = "done" /\ HasKey(file_dir_pattern)) =>
        \A e \in 1..Len(all_files) :
            all_files[e].val.ok =>
                PlaceholderMatches(<<all_files[e].val.file>>, file_dir_pattern, <<"key">>)
                    = << <<all_files[e].key>> >>


====
